---------------------------- MODULE Spec2Model ----------------------------
(***************************************************************************)
(* State-machine model of the three per-key runtime primitives of          *)
(* scg-service-api:                                                        *)
(*   - the circuit breaker  (infrastructure/circuitbreaker)                *)
(*   - the token-bucket rate limiter (infrastructure/ratelimit)            *)
(*   - the TTL memory cache (infrastructure/cache)                         *)
(* Each primitive has its own specification over a shared wall clock.      *)
(* Every step that the code performs while holding one of its locks is one *)
(* atomic action; steps separated by a lock release are separate actions.  *)
(***************************************************************************)
EXTENDS Integers, Sequences, FiniteSets, TLC

VARIABLES
    now,        \* wall clock, in ticks (time.Now())
    cbCfg,      \* gobreakerAdapter.config
    breakers,   \* gobreakerAdapter.breakers: key -> breaker object id (0: no entry)
    objs,       \* the heap of *circuitBreaker objects: id -> object or NoObj
    cbProc,     \* per caller: position in Execute/GetState/Reset and its locals
    cbLast,     \* the call that returned in the last step of a caller, or NoCall
    hist,       \* history: the number of fn invocations completed so far
    failed,     \* history, kept for sequential runs: how many of them failed
    notes,      \* the onStateChange calls made in the last step, in order
    rlCfg,      \* tokenBucketLimiter.config
    limiters,   \* tokenBucketLimiter.limiters: key -> *rateLimiter or NoLimiter
    rlProc,     \* per caller: position in a limiter call and its locals
    rlLast,     \* the limiter call that returned in the last step of a caller
    tally,      \* history, kept for a race of Allow calls: who called, who was let in
    cacheCfg,   \* memoryAdapter.config
    items,      \* memoryAdapter.items: key -> cacheEntry or NoEntry
    deleters,   \* per key: goroutines started by Get that have yet to delete the key
    cLast,      \* the cache operation performed in the last step, or NoCacheCall
    multi,      \* the SetMulti call under way: the entries it has yet to Set, its ttl
    sweeper,    \* the goroutine of startCleanup: where it is
    closers,    \* the callers of Close: where each is, how many calls returned
    counts      \* history, kept for a race of Increment calls: who called, what returned

cbVars == <<cbCfg, breakers, objs, cbProc, cbLast, hist, failed, notes>>
rlVars == <<rlCfg, limiters, rlProc, rlLast, tally>>
cacheVars == <<cacheCfg, items, deleters, cLast, multi, sweeper, closers, counts>>

(***************************************************************************)
(* Bounds of the model                                                     *)
(***************************************************************************)
MaxTime == 3
MaxCalls == 4
MaxSeqCalls == 21
MaxLimiterTime == 3
MaxN == 3
MaxWaitN == 2
MaxCacheTime == 4
MaxTTL == 2
MaxDeleters == 2
MaxInt == 3
MaxCloses == 3
MaxFirstCalls == 2

Keys == {"k1", "k2"}      \* the keys of the stores
Procs == {"p1", "p2"}     \* concurrent callers
OneKey == {"k1"}
OneProc == {"p1"}
RaceProcs == {"p1", "p2", "p3"}

(***************************************************************************)
(* Circuit breaker: constants, configuration, objects                      *)
(***************************************************************************)
stateOpen == "open"
stateClosed == "closed"
stateHalfOpen == "half-open"

StateClosed == "CLOSED"
StateOpen == "OPEN"
StateHalfOpen == "HALF_OPEN"

\* errors an Execute call can return; "nil" is success
ErrNil == "nil"
ErrFn == "fnErr"                \* whatever error fn itself returned
ErrOpenInner == "openInner"     \* errors.New("circuit breaker is open")
ErrOpenNamed == "openNamed"     \* fmt.Errorf("circuit breaker '%s' is open", name)
OpenErrors == {ErrOpenInner, ErrOpenNamed}

\* DefaultConfig(), with SleepWindow in ticks of one second
DefaultConfig ==
    [Enabled |-> TRUE, MaxConcurrentRequests |-> 100,
     RequestVolumeThreshold |-> 20, ErrorThresholdPercentage |-> 50,
     SleepWindow |-> 5]

\* a deployment's Config with small thresholds, so that every transition of
\* the breaker is within reach of a few calls
SmallConfig ==
    [Enabled |-> TRUE, MaxConcurrentRequests |-> 2,
     RequestVolumeThreshold |-> 2, ErrorThresholdPercentage |-> 50,
     SleepWindow |-> 1]

DisabledConfig == [SmallConfig EXCEPT !.Enabled = FALSE]

\* a probe budget of one request
ProbeConfig == [SmallConfig EXCEPT !.MaxConcurrentRequests = 1]

ZeroCounts ==
    [requests |-> 0, totalSuccesses |-> 0, totalFailures |-> 0,
     consecutiveSuccesses |-> 0, consecutiveFailures |-> 0]

NoObj == [name |-> "none"]

NObj == Cardinality(Keys) + Cardinality(Procs)
ObjIds == 1..NObj

\* fired: the onStateChange calls the breaker has made in the critical
\* section under way
newCircuitBreaker(name, t) ==
    [name |-> name, counts |-> ZeroCounts, state |-> stateClosed,
     lastStateChangeTime |-> t, fired |-> <<>>]

\* the readyToTrip closure of getBreaker; the float64 ratio agrees with the
\* exact one for every requests <= 40
readyToTrip(c, cfg) ==
    /\ c.requests >= cfg.RequestVolumeThreshold
    /\ c.totalFailures * 100 >= cfg.ErrorThresholdPercentage * c.requests

\* the onStateChange closure of getBreaker, called with name, from, to
onStateChange(name, from, to) == [name |-> name, from |-> from, to |-> to]

\* a setState that changes the state without telling anybody
setStateSilent(cb, state, t) ==
    IF cb.state = state
    THEN cb
    ELSE [cb EXCEPT !.state = state, !.lastStateChangeTime = t,
                    !.counts = ZeroCounts]

\* a transition that carries the counters and the time of the last change over
setStateKeeps(cb, state, t) ==
    IF cb.state = state
    THEN cb
    ELSE [cb EXCEPT !.state = state,
                    !.fired = Append(@, onStateChange(cb.name, cb.state, state))]

setState(cb, state, t) ==
    IF cb.state = state
    THEN cb
    ELSE [cb EXCEPT !.state = state, !.lastStateChangeTime = t,
                    !.counts = ZeroCounts,
                    !.fired = Append(@, onStateChange(cb.name, cb.state, state))]

\* the breaker when its mutex is released
Unlocked(cb) == [cb EXCEPT !.fired = <<>>]

\* a promotion that lacks the test for the open state
StateFromAny(cb, cfg, t) ==
    IF t - cb.lastStateChangeTime > cfg.SleepWindow
    THEN setState(cb, stateHalfOpen, t)
    ELSE cb

\* circuitBreaker.State(): the breaker after the lazy promotion
State(cb, cfg, t) ==
    IF cb.state = stateOpen /\ t - cb.lastStateChangeTime > cfg.SleepWindow
    THEN setState(cb, stateHalfOpen, t)
    ELSE cb

\* the guard with the wrong state constant
RefusedOnEntryWrongState(cb) == cb.state = stateHalfOpen

\* the first critical section of circuitBreaker.Execute: TRUE when the call
\* is refused
RefusedOnEntry(cb) == cb.state = stateOpen

onFailure(cb, cfg, t) ==
    LET c == [cb.counts EXCEPT !.requests = @ + 1, !.totalFailures = @ + 1,
                               !.consecutiveFailures = @ + 1,
                               !.consecutiveSuccesses = 0]
        cb1 == [cb EXCEPT !.counts = c]
    IN  IF cb1.state = stateClosed /\ readyToTrip(c, cfg)
        THEN setState(cb1, stateOpen, t)
        ELSE cb1

\* a success handler that closes a half-open breaker on its first success
onSuccessEager(cb, cfg, t) ==
    LET c == [cb.counts EXCEPT !.requests = @ + 1, !.totalSuccesses = @ + 1,
                               !.consecutiveSuccesses = @ + 1,
                               !.consecutiveFailures = 0]
        cb1 == [cb EXCEPT !.counts = c]
    IN  IF cb1.state = stateHalfOpen
        THEN setState(cb1, stateClosed, t)
        ELSE cb1

onSuccess(cb, cfg, t) ==
    LET c == [cb.counts EXCEPT !.requests = @ + 1, !.totalSuccesses = @ + 1,
                               !.consecutiveSuccesses = @ + 1,
                               !.consecutiveFailures = 0]
        cb1 == [cb EXCEPT !.counts = c]
    IN  IF cb1.state = stateHalfOpen
           /\ c.consecutiveSuccesses >= cfg.MaxConcurrentRequests
        THEN setState(cb1, stateClosed, t)
        ELSE cb1

\* the second critical section of circuitBreaker.Execute
RecordOutcome(cb, err, cfg, t) ==
    IF err # ErrNil THEN onFailure(cb, cfg, t) ELSE onSuccess(cb, cfg, t)

\* the error gobreakerAdapter.Execute returns for a failed breaker.Execute,
\* given the state breaker.State() reported
AdapterError(state, err) ==
    IF state = stateOpen THEN ErrOpenNamed ELSE err

\* the switch of gobreakerAdapter.GetState
PortState(state) ==
    IF state = stateOpen THEN StateOpen
    ELSE IF state = stateHalfOpen THEN StateHalfOpen
    ELSE StateClosed

\* what a fallback handed to ExecuteWithFallback may return
FallbackOk == "fallback result"
ErrFallback == "fallback error"

\* probe: fn was let through by a breaker that was half-open at that moment;
\* fallback: the call is ExecuteWithFallback with a non-nil fallback; exec:
\* what its Execute returned; fbArg: the error its fallback was called with;
\* reset: the state of the breaker that a Reset of the key removed just
\* before the call
IdleProc ==
    [pc |-> "idle", op |-> "none", key |-> "none", ref |-> 0,
     invoked |-> FALSE, probe |-> FALSE, err |-> ErrNil,
     fallback |-> FALSE, exec |-> "none", fbArg |-> "none", reset |-> "none"]

\* fbCalls: how many times the call invoked its fallback; was: the state of
\* the breaker a Reset removed
NoCall ==
    [op |-> "none", key |-> "none", invoked |-> FALSE, err |-> ErrNil, ret |-> "none",
     fallback |-> FALSE, exec |-> "none", fbArg |-> "none", fbCalls |-> 0,
     was |-> "none"]

\* the record of a call that returns ret
Returned(c, ret) ==
    [op |-> c.op, key |-> c.key, invoked |-> c.invoked, err |-> c.err, ret |-> ret,
     fallback |-> c.fallback, exec |-> c.exec, fbArg |-> c.fbArg, fbCalls |-> 0,
     was |-> "none"]

\* a test that hands only fast-fail errors to the fallback
WantsFallbackOnOpen(c, ret) == c.fallback /\ ret \in OpenErrors

\* ExecuteWithFallback after Execute returned ret: err != nil && fallback != nil
WantsFallback(c, ret) == c.fallback /\ ret # "ok"

\* the caller once its Execute has returned ret: done, or inside the fallback
\* it has called with that error
AfterExecute(c, ret) ==
    IF WantsFallback(c, ret)
    THEN [IdleProc EXCEPT !.pc = "fallback", !.op = c.op, !.key = c.key,
                          !.invoked = c.invoked, !.err = c.err, !.fallback = TRUE,
                          !.exec = ret, !.fbArg = ret]
    ELSE IdleProc

\* the call that returns when Execute has returned ret, if one does
LastAfterExecute(c, ret) ==
    IF WantsFallback(c, ret)
    THEN NoCall
    ELSE [Returned(c, ret) EXCEPT
            !.exec = IF c.op = "ExecuteWithFallback" THEN ret ELSE "none"]

\* objects no map entry and no caller refers to are garbage
Collect(os, bs, ps) ==
    [i \in ObjIds |->
        IF (\E k \in Keys : bs[k] = i) \/ (\E p \in Procs : ps[p].ref = i)
        THEN os[i] ELSE NoObj]

FreshId == CHOOSE i \in ObjIds : objs[i] = NoObj /\ \A j \in 1..(i-1) : objs[j] # NoObj

(***************************************************************************)
(* Circuit breaker: actions                                                *)
(***************************************************************************)
Tick(max) ==
    /\ now < max
    /\ now' = now + 1

Failures(outcome) == IF outcome = ErrNil THEN 0 ELSE 1

\* a result that hides fn's own error behind the breaker-open error
FnResultMasked(outcome) == IF outcome = ErrNil THEN "ok" ELSE ErrOpenNamed

\* return fn(ctx): what the caller gets when fn returned outcome
FnResult(outcome) == IF outcome = ErrNil THEN "ok" ELSE outcome

\* gobreakerAdapter.Execute with Enabled=false: fn is called directly
ExecuteDisabled(p, k, outcome, maxCalls) ==
    /\ cbProc[p].pc = "idle"
    /\ ~cbCfg.Enabled
    /\ hist < maxCalls
    /\ cbLast' = [NoCall EXCEPT !.op = "Execute", !.key = k, !.invoked = TRUE,
                                !.err = outcome,
                                !.ret = FnResult(outcome)]
    /\ hist' = hist + 1
    /\ UNCHANGED <<now, cbCfg, breakers, objs, cbProc, failed>>
    /\ notes' = <<>>

\* gobreakerAdapter.ExecuteWithFallback with Enabled=false: Execute calls fn
\* directly and returns what fn returned
ExecuteWithFallbackDisabled(p, k, outcome, fallback, maxCalls) ==
    /\ cbProc[p].pc = "idle"
    /\ ~cbCfg.Enabled
    /\ hist < maxCalls
    /\ LET c == [IdleProc EXCEPT !.op = "ExecuteWithFallback", !.key = k,
                                 !.invoked = TRUE, !.err = outcome,
                                 !.fallback = fallback]
           ret == FnResult(outcome)
       IN  /\ cbProc' = [cbProc EXCEPT ![p] = AfterExecute(c, ret)]
           /\ cbLast' = LastAfterExecute(c, ret)
    /\ hist' = hist + 1
    /\ UNCHANGED <<now, cbCfg, breakers, objs, failed>>
    /\ notes' = <<>>

\* gobreakerAdapter.ExecuteWithFallback, Enabled: it calls Execute, which
\* begins with the read-locked lookup of getBreaker
ExecuteWithFallbackCall(p, k, fallback, maxCalls) ==
    /\ cbProc[p].pc = "idle"
    /\ cbCfg.Enabled
    /\ hist < maxCalls
    /\ cbProc' = [cbProc EXCEPT ![p] =
            [IdleProc EXCEPT !.op = "ExecuteWithFallback", !.key = k,
                             !.fallback = fallback,
                             !.ref = breakers[k],
                             !.pc = IF breakers[k] # 0 THEN "enter" ELSE "getBreaker"]]
    /\ cbLast' = NoCall
    /\ UNCHANGED <<now, cbCfg, breakers, objs, hist, failed>>
    /\ notes' = <<>>

\* the fallback returns, and ExecuteWithFallback returns what it returned
FallbackReturn(p, outcome) ==
    /\ cbProc[p].pc = "fallback"
    /\ cbLast' = [Returned(cbProc[p], outcome) EXCEPT !.fbCalls = 1]
    /\ cbProc' = [cbProc EXCEPT ![p] = IdleProc]
    /\ UNCHANGED <<now, cbCfg, breakers, objs, hist, failed>>
    /\ notes' = <<>>

\* gobreakerAdapter.Execute, Enabled: the read-locked lookup of getBreaker; a
\* followed call remembers the Reset of its key that came just before it
ExecuteCallFrom(p, k, maxCalls, followed) ==
    /\ cbProc[p].pc = "idle"
    /\ cbCfg.Enabled
    /\ hist < maxCalls
    /\ cbProc' = [cbProc EXCEPT ![p] =
            [IdleProc EXCEPT !.op = "Execute", !.key = k,
                             !.reset = IF followed /\ cbLast.op = "Reset" /\ cbLast.key = k
                                       THEN cbLast.was ELSE "none",
                             !.ref = breakers[k],
                             !.pc = IF breakers[k] # 0 THEN "enter" ELSE "getBreaker"]]
    /\ cbLast' = NoCall
    /\ UNCHANGED <<now, cbCfg, breakers, objs, hist, failed>>
    /\ notes' = <<>>

ExecuteCall(p, k, maxCalls) == ExecuteCallFrom(p, k, maxCalls, FALSE)

\* a getBreaker that creates and inserts without looking again
GetBreakerCreateBlind(p) ==
    /\ cbProc[p].pc = "getBreaker"
    /\ breakers' = [breakers EXCEPT ![cbProc[p].key] = FreshId]
    /\ objs' = [objs EXCEPT ![FreshId] = newCircuitBreaker(cbProc[p].key, now)]
    /\ cbProc' = [cbProc EXCEPT ![p].ref = FreshId, ![p].pc = "enter"]
    /\ cbLast' = NoCall
    /\ UNCHANGED <<now, cbCfg, hist, failed>>
    /\ notes' = <<>>

\* getBreaker under the write lock: re-check, then create and insert
GetBreakerCreate(p) ==
    /\ cbProc[p].pc = "getBreaker"
    /\ LET k == cbProc[p].key
       IN  IF breakers[k] # 0
           THEN /\ cbProc' = [cbProc EXCEPT ![p].ref = breakers[k], ![p].pc = "enter"]
                /\ UNCHANGED <<breakers, objs>>
           ELSE /\ breakers' = [breakers EXCEPT ![k] = FreshId]
                /\ objs' = [objs EXCEPT ![FreshId] = newCircuitBreaker(k, now)]
                /\ cbProc' = [cbProc EXCEPT ![p].ref = FreshId, ![p].pc = "enter"]
    /\ cbLast' = NoCall
    /\ UNCHANGED <<now, cbCfg, hist, failed>>
    /\ notes' = <<>>

\* circuitBreaker.Execute, first critical section: read the state; refuse
\* when open, else call req
BreakerEnter(p) ==
    /\ cbProc[p].pc = "enter"
    /\ IF RefusedOnEntry(objs[cbProc[p].ref])
       THEN cbProc' = [cbProc EXCEPT ![p].err = ErrOpenInner, ![p].pc = "check"]
       ELSE cbProc' = [cbProc EXCEPT ![p].invoked = TRUE, ![p].pc = "fn",
                                     ![p].probe = (objs[cbProc[p].ref].state = stateHalfOpen)]
    /\ cbLast' = NoCall
    /\ UNCHANGED <<now, cbCfg, breakers, objs, hist, failed>>
    /\ notes' = <<>>

\* fn returns, with a result or with an error of its own; a sequential run
\* keeps the number of failures as history
FnReturn(p, outcome, sequential) ==
    /\ cbProc[p].pc = "fn"
    /\ cbProc' = [cbProc EXCEPT ![p].err = outcome, ![p].pc = "record"]
    /\ hist' = hist + 1
    /\ failed' = IF sequential THEN failed + Failures(outcome) ELSE failed
    /\ cbLast' = NoCall
    /\ UNCHANGED <<now, cbCfg, breakers, objs>>
    /\ notes' = <<>>

\* circuitBreaker.Execute, second critical section; on success the adapter
\* returns the result without touching the breaker again
BreakerRecord(p) ==
    /\ cbProc[p].pc = "record"
    /\ LET r == cbProc[p].ref
           cb == RecordOutcome(objs[r], cbProc[p].err, cbCfg, now)
           os == [objs EXCEPT ![r] = Unlocked(cb)]
       IN  /\ notes' = cb.fired
           /\ IF cbProc[p].err = ErrNil
              THEN /\ cbProc' = [cbProc EXCEPT ![p] = AfterExecute(cbProc[p], "ok")]
                   /\ cbLast' = LastAfterExecute(cbProc[p], "ok")
              ELSE /\ cbProc' = [cbProc EXCEPT ![p].pc = "check"]
                   /\ cbLast' = NoCall
           /\ objs' = Collect(os, breakers, cbProc')
    /\ UNCHANGED <<now, cbCfg, breakers, hist, failed>>

\* gobreakerAdapter.Execute after a failed breaker.Execute: breaker.State(),
\* then the choice of the error to return
AdapterCheck(p) ==
    /\ cbProc[p].pc = "check"
    /\ LET r == cbProc[p].ref
           cb == State(objs[r], cbCfg, now)
           os == [objs EXCEPT ![r] = Unlocked(cb)]
           ret == AdapterError(cb.state, cbProc[p].err)
       IN  /\ notes' = cb.fired
           /\ cbProc' = [cbProc EXCEPT ![p] = AfterExecute(cbProc[p], ret)]
           /\ cbLast' = LastAfterExecute(cbProc[p], ret)
           /\ objs' = Collect(os, breakers, cbProc')
    /\ UNCHANGED <<now, cbCfg, breakers, hist, failed>>

\* an answer of Open for a key the map does not hold
UnknownKeyStateOpen == StateOpen

\* gobreakerAdapter.GetState, if !exists
UnknownKeyState == StateClosed

\* gobreakerAdapter.GetState: the read-locked lookup; an unknown key is
\* answered at once
GetStateCall(p, k) ==
    /\ cbProc[p].pc = "idle"
    /\ IF breakers[k] = 0
       THEN /\ cbLast' = [NoCall EXCEPT !.op = "GetState", !.key = k,
                                           !.ret = UnknownKeyState]
            /\ UNCHANGED cbProc
       ELSE /\ cbProc' = [cbProc EXCEPT ![p] =
                    [IdleProc EXCEPT !.op = "GetState", !.key = k,
                                     !.ref = breakers[k], !.pc = "state"]]
            /\ cbLast' = NoCall
    /\ UNCHANGED <<now, cbCfg, breakers, objs, hist, failed>>
    /\ notes' = <<>>

\* gobreakerAdapter.GetState: breaker.State() and the mapping to the port's State
GetStateReturn(p) ==
    /\ cbProc[p].pc = "state"
    /\ LET r == cbProc[p].ref
           cb == State(objs[r], cbCfg, now)
           os == [objs EXCEPT ![r] = Unlocked(cb)]
       IN  /\ notes' = cb.fired
           /\ cbProc' = [cbProc EXCEPT ![p] = IdleProc]
           /\ cbLast' = Returned(cbProc[p], PortState(cb.state))
           /\ objs' = Collect(os, breakers, cbProc')
    /\ UNCHANGED <<now, cbCfg, breakers, hist, failed>>

\* a delete that leaves the map as it is
DeletedNot(bs, k) == bs

\* delete(g.breakers, name)
Deleted(bs, k) == [bs EXCEPT ![k] = 0]

\* gobreakerAdapter.Reset
Reset(p, k) ==
    /\ cbProc[p].pc = "idle"
    /\ breakers[k] # 0
    /\ breakers' = Deleted(breakers, k)
    /\ objs' = Collect(objs, breakers', cbProc)
    /\ cbLast' = [NoCall EXCEPT !.op = "Reset", !.key = k,
                                !.was = objs[breakers[k]].state]
    /\ UNCHANGED <<now, cbCfg, cbProc, hist, failed>>
    /\ notes' = <<>>

InitBreaker(cfgs) ==
    /\ cbCfg \in cfgs
    /\ breakers = [k \in Keys |-> 0]
    /\ objs = [i \in ObjIds |-> NoObj]
    /\ cbProc = [p \in Procs |-> IdleProc]
    /\ cbLast = NoCall
    /\ notes = <<>>
    /\ hist = 0
    /\ failed = 0

(***************************************************************************)
(* Rate limiter: configuration, buckets                                    *)
(* Token counts are kept in units of 1/UnitsPerToken token and the refill  *)
(* rate in units per tick, so that limit = RefillPerTick / UnitsPerToken   *)
(* tokens per tick (a binary fraction: the float64 arithmetic is exact).   *)
(***************************************************************************)
LimiterConfig ==
    [Enabled |-> TRUE, Burst |-> 2, UnitsPerToken |-> 2, RefillPerTick |-> 1,
     WaitTimeout |-> 1]

\* a rate of 3/4 token per tick: one tick refills less than a whole token
\* and more than the smallest count a bucket can lack
FineConfig ==
    [Enabled |-> TRUE, Burst |-> 1, UnitsPerToken |-> 4, RefillPerTick |-> 3,
     WaitTimeout |-> 1]

DisabledLimiterConfig == [LimiterConfig EXCEPT !.Enabled = FALSE]

NoLimiter == [tokens |-> -1, last |-> 0]

Min(a, b) == IF a < b THEN a ELSE b

\* n tokens, and the bucket's capacity, in units
Units(n, cfg) == n * cfg.UnitsPerToken
Capacity(cfg) == cfg.Burst * cfg.UnitsPerToken

newRateLimiter(cfg, t) == [tokens |-> Capacity(cfg), last |-> t]

\* the refill every operation starts with, without its cap
RefillUncapped(r, cfg, t) ==
    [tokens |-> r.tokens + (t - r.last) * cfg.RefillPerTick, last |-> t]

\* the refill every operation of rateLimiter starts with
Refill(r, cfg, t) ==
    [tokens |-> Min(r.tokens + (t - r.last) * cfg.RefillPerTick, Capacity(cfg)),
     last |-> t]

\* Allow that lets the caller in without taking its token
AllowNoDecrement(r, cfg, t) ==
    LET f == Refill(r, cfg, t)
    IN  IF f.tokens < Units(1, cfg)
        THEN [lim |-> f, ok |-> FALSE, spent |-> 0]
        ELSE [lim |-> f, ok |-> TRUE, spent |-> 0]

\* Allow that, when it refuses, forgets the refill it has just credited
AllowForgetful(r, cfg, t) ==
    LET f == Refill(r, cfg, t)
    IN  IF f.tokens < Units(1, cfg)
        THEN [lim |-> [f EXCEPT !.tokens = r.tokens], ok |-> FALSE, spent |-> 0]
        ELSE [lim |-> [f EXCEPT !.tokens = @ - Units(1, cfg)], ok |-> TRUE,
              spent |-> Units(1, cfg)]

\* rateLimiter.Allow: the bucket afterwards, the answer, the units taken
Allow(r, cfg, t) ==
    LET f == Refill(r, cfg, t)
    IN  IF f.tokens < Units(1, cfg)
        THEN [lim |-> f, ok |-> FALSE, spent |-> 0]
        ELSE [lim |-> [f EXCEPT !.tokens = @ - Units(1, cfg)], ok |-> TRUE,
              spent |-> Units(1, cfg)]

\* AllowN that tests the count it finds, before the refill is added
AllowNStale(r, n, cfg, t) ==
    LET f == Refill(r, cfg, t)
    IN  IF r.tokens < Units(n, cfg)
        THEN [lim |-> f, ok |-> FALSE, spent |-> 0]
        ELSE [lim |-> [f EXCEPT !.tokens = @ - Units(n, cfg)], ok |-> TRUE,
              spent |-> Units(n, cfg)]

\* rateLimiter.AllowN
AllowN(r, n, cfg, t) ==
    LET f == Refill(r, cfg, t)
    IN  IF f.tokens < Units(n, cfg)
        THEN [lim |-> f, ok |-> FALSE, spent |-> 0]
        ELSE [lim |-> [f EXCEPT !.tokens = @ - Units(n, cfg)], ok |-> TRUE,
              spent |-> Units(n, cfg)]

\* time.Duration(waitTime * float64(time.Second)) for waitTime = need / limit:
\* a whole number of ticks, the fraction of a tick is cut off
Duration(need, cfg) == need \div cfg.RefillPerTick

\* rateLimiter.Reserve: need is the count still to be refilled, wait the
\* duration returned; both 0 when the token was taken
Reserve(r, cfg, t) ==
    LET f == Refill(r, cfg, t)
    IN  IF f.tokens >= Units(1, cfg)
        THEN [lim |-> [f EXCEPT !.tokens = @ - Units(1, cfg)], need |-> 0,
              wait |-> 0, spent |-> Units(1, cfg)]
        ELSE [lim |-> f, need |-> Units(1, cfg) - f.tokens,
              wait |-> Duration(Units(1, cfg) - f.tokens, cfg), spent |-> 0]

\* rateLimiter.ReserveN
ReserveN(r, n, cfg, t) ==
    LET f == Refill(r, cfg, t)
    IN  IF f.tokens >= Units(n, cfg)
        THEN [lim |-> [f EXCEPT !.tokens = @ - Units(n, cfg)], need |-> 0,
              wait |-> 0, spent |-> Units(n, cfg)]
        ELSE [lim |-> f, need |-> Units(n, cfg) - f.tokens,
              wait |-> Duration(Units(n, cfg) - f.tokens, cfg), spent |-> 0]

\* a timer that never fires
TimerNever(wait, start, t) == FALSE

\* the timer of Wait/WaitN, set at start for the duration wait, has fired
TimerFired(wait, start, t) == t - start >= wait

LimiterOps == {"Allow", "AllowN", "Reserve", "ReserveN", "Wait", "WaitN"}

\* Allow, Reserve and Wait ask for one token
Amounts(op) == IF op \in {"AllowN", "ReserveN", "WaitN"} THEN 0..MaxN ELSE {1}

\* the caller's context may be done already when Wait or WaitN is called
Contexts(op) == IF op \in {"Wait", "WaitN"} THEN BOOLEAN ELSE {FALSE}

\* need, wait, start: the reservation of a suspended Wait and its timer;
\* early: the context was done before the timer's duration had elapsed
IdleCaller ==
    [pc |-> "idle", op |-> "none", key |-> "none", n |-> 0, need |-> 0,
     wait |-> 0, start |-> 0, spent |-> 0, ctxDone |-> FALSE, early |-> FALSE]

\* a returned call: ret is "true"/"false" (Allow, AllowN), "duration"
\* (Reserve, ReserveN, the duration being wait ticks), "nil"/"ctxErr"
\* (Wait, WaitN, wait being the time they were to be suspended for); spent is
\* the number of units the call took from the bucket
NoLimiterCall ==
    [op |-> "none", key |-> "none", n |-> 0, ret |-> "none", wait |-> 0, spent |-> 0]

LimiterReturned(c, ret, wait, spent) ==
    [op |-> c.op, key |-> c.key, n |-> c.n, ret |-> ret, wait |-> wait,
     spent |-> spent]

\* a disabled limiter that refuses
PermitNone(op) ==
    IF op \in {"Allow", "AllowN"} THEN "false"
    ELSE IF op \in {"Reserve", "ReserveN"} THEN "duration"
    ELSE "ctxErr"

\* what a disabled limiter answers: true, a zero duration, nil
Permit(op) ==
    IF op \in {"Allow", "AllowN"} THEN "true"
    ELSE IF op \in {"Reserve", "ReserveN"} THEN "duration"
    ELSE "nil"

\* the history of a race: c whole tokens at the start, who called, who was
\* let in; and of the bucket running dry under Allow: at is the time of the
\* grant that left less than one token (0: the bucket is not dry), left the
\* count it left, polled whether an Allow has been refused since, recovered
\* whether the last Allow was the grant ending a dry spell with refused calls
NoTally ==
    [c |-> 0, callers |-> {}, granted |-> {}, at |-> 0, left |-> 0,
     polled |-> FALSE, recovered |-> FALSE]

Tallied(race, p, ok) ==
    IF race /\ ok THEN [tally EXCEPT !.granted = @ \cup {p}] ELSE tally

\* the history h after an Allow at time t with result a
DrySpell(race, h, a, cfg, t) ==
    IF ~race THEN h
    ELSE IF a.ok
    THEN [h EXCEPT !.at = IF a.lim.tokens < Units(1, cfg) THEN t ELSE 0,
                   !.left = IF a.lim.tokens < Units(1, cfg) THEN a.lim.tokens ELSE 0,
                   !.polled = FALSE,
                   !.recovered = h.at > 0 /\ h.polled]
    ELSE [h EXCEPT !.polled = h.at > 0, !.recovered = FALSE]

(***************************************************************************)
(* Rate limiter: actions                                                   *)
(***************************************************************************)
\* a call on a disabled limiter
LimiterCallDisabled(p, op, k, n) ==
    /\ rlProc[p].pc = "idle"
    /\ ~rlCfg.Enabled
    /\ rlLast' = [op |-> op, key |-> k, n |-> n, ret |-> Permit(op), wait |-> 0,
                  spent |-> 0]
    /\ UNCHANGED <<now, rlCfg, limiters, rlProc, tally>>

\* a call on an enabled limiter: the read-locked lookup of getLimiter
LimiterCall(p, op, k, n, ctxDone, race) ==
    /\ rlProc[p].pc = "idle"
    /\ rlCfg.Enabled
    /\ rlProc' = [rlProc EXCEPT ![p] =
            [IdleCaller EXCEPT !.op = op, !.key = k, !.n = n, !.ctxDone = ctxDone,
                               !.early = ctxDone,
                               !.pc = IF limiters[k] # NoLimiter THEN "op"
                                      ELSE "getLimiter"]]
    /\ tally' = IF race THEN [tally EXCEPT !.callers = @ \cup {p}] ELSE tally
    /\ rlLast' = NoLimiterCall
    /\ UNCHANGED <<now, rlCfg, limiters>>

\* getLimiter under the write lock: re-check, then create and insert
GetLimiterCreate(p) ==
    /\ rlProc[p].pc = "getLimiter"
    /\ limiters' = IF limiters[rlProc[p].key] # NoLimiter
                   THEN limiters
                   ELSE [limiters EXCEPT ![rlProc[p].key] = newRateLimiter(rlCfg, now)]
    /\ rlProc' = [rlProc EXCEPT ![p].pc = "op"]
    /\ rlLast' = NoLimiterCall
    /\ UNCHANGED <<now, rlCfg, tally>>

\* rateLimiter.Allow under r.mu
DoAllow(p, race) ==
    /\ rlProc[p].pc = "op" /\ rlProc[p].op = "Allow"
    /\ LET a == Allow(limiters[rlProc[p].key], rlCfg, now)
       IN  /\ limiters' = [limiters EXCEPT ![rlProc[p].key] = a.lim]
           /\ rlLast' = LimiterReturned(rlProc[p], IF a.ok THEN "true" ELSE "false",
                                        0, a.spent)
           /\ tally' = DrySpell(race, Tallied(race, p, a.ok), a, rlCfg, now)
    /\ rlProc' = [rlProc EXCEPT ![p] = IdleCaller]
    /\ UNCHANGED <<now, rlCfg>>

\* rateLimiter.AllowN under r.mu
DoAllowN(p) ==
    /\ rlProc[p].pc = "op" /\ rlProc[p].op = "AllowN"
    /\ LET a == AllowN(limiters[rlProc[p].key], rlProc[p].n, rlCfg, now)
       IN  /\ limiters' = [limiters EXCEPT ![rlProc[p].key] = a.lim]
           /\ rlLast' = LimiterReturned(rlProc[p], IF a.ok THEN "true" ELSE "false",
                                        0, a.spent)
    /\ rlProc' = [rlProc EXCEPT ![p] = IdleCaller]
    /\ UNCHANGED <<now, rlCfg, tally>>

\* rateLimiter.Reserve and ReserveN under r.mu; the duration is returned
DoReserve(p) ==
    /\ rlProc[p].pc = "op" /\ rlProc[p].op \in {"Reserve", "ReserveN"}
    /\ LET a == IF rlProc[p].op = "Reserve"
                THEN Reserve(limiters[rlProc[p].key], rlCfg, now)
                ELSE ReserveN(limiters[rlProc[p].key], rlProc[p].n, rlCfg, now)
       IN  /\ limiters' = [limiters EXCEPT ![rlProc[p].key] = a.lim]
           /\ rlLast' = LimiterReturned(rlProc[p], "duration", a.wait, a.spent)
    /\ rlProc' = [rlProc EXCEPT ![p] = IdleCaller]
    /\ UNCHANGED <<now, rlCfg, tally>>

\* rateLimiter.Wait and WaitN: the reservation; nil at once when the
\* duration is zero, else the timer is started
DoWait(p) ==
    /\ rlProc[p].pc = "op" /\ rlProc[p].op \in {"Wait", "WaitN"}
    /\ LET a == IF rlProc[p].op = "Wait"
                THEN Reserve(limiters[rlProc[p].key], rlCfg, now)
                ELSE ReserveN(limiters[rlProc[p].key], rlProc[p].n, rlCfg, now)
       IN  /\ limiters' = [limiters EXCEPT ![rlProc[p].key] = a.lim]
           /\ IF a.wait = 0
              THEN /\ rlLast' = LimiterReturned(rlProc[p], "nil", 0, a.spent)
                   /\ rlProc' = [rlProc EXCEPT ![p] = IdleCaller]
              ELSE /\ rlProc' = [rlProc EXCEPT ![p].pc = "timer", ![p].need = a.need,
                                              ![p].wait = a.wait,
                                              ![p].start = now, ![p].spent = a.spent]
                   /\ rlLast' = NoLimiterCall
    /\ UNCHANGED <<now, rlCfg, tally>>

\* the select of Wait/WaitN finds neither channel ready and blocks
WaitPark(p) ==
    /\ rlProc[p].pc = "timer"
    /\ ~TimerFired(rlProc[p].wait, rlProc[p].start, now)
    /\ ~rlProc[p].ctxDone
    /\ rlProc' = [rlProc EXCEPT ![p].pc = "parked"]
    /\ rlLast' = NoLimiterCall
    /\ UNCHANGED <<now, rlCfg, limiters, tally>>

\* the select of Wait/WaitN: <-timer.C, found ready by the select, or the
\* first channel to become ready while the select was blocked
WaitTimerFires(p) ==
    /\ rlProc[p].pc \in {"timer", "parked"}
    /\ TimerFired(rlProc[p].wait, rlProc[p].start, now)
    /\ rlLast' = LimiterReturned(rlProc[p], "nil", rlProc[p].wait, rlProc[p].spent)
    /\ rlProc' = [rlProc EXCEPT ![p] = IdleCaller]
    /\ UNCHANGED <<now, rlCfg, limiters, tally>>

\* the caller's context is cancelled or reaches its deadline; a select that
\* is blocked with its timer still running is woken by ctx.Done()
CtxCancel(p) ==
    /\ rlProc[p].pc \in {"timer", "parked"}
    /\ ~rlProc[p].ctxDone
    /\ rlProc' = [rlProc EXCEPT
            ![p].ctxDone = TRUE,
            ![p].early = ~TimerFired(rlProc[p].wait, rlProc[p].start, now),
            ![p].pc = IF rlProc[p].pc = "parked"
                         /\ ~TimerFired(rlProc[p].wait, rlProc[p].start, now)
                      THEN "cancelled" ELSE rlProc[p].pc]
    /\ rlLast' = NoLimiterCall
    /\ UNCHANGED <<now, rlCfg, limiters, tally>>

\* the select of Wait/WaitN: <-ctx.Done(), found ready by the select, or the
\* channel that woke the blocked select
WaitCtxDone(p) ==
    /\ \/ rlProc[p].pc = "timer" /\ rlProc[p].ctxDone
       \/ rlProc[p].pc = "cancelled"
    /\ rlLast' = LimiterReturned(rlProc[p], "ctxErr", rlProc[p].wait, rlProc[p].spent)
    /\ rlProc' = [rlProc EXCEPT ![p] = IdleCaller]
    /\ UNCHANGED <<now, rlCfg, limiters, tally>>

InitLimiter(cfgs) ==
    /\ rlCfg \in cfgs
    /\ limiters = [k \in Keys |-> NoLimiter]
    /\ rlProc = [p \in RaceProcs |-> IdleCaller]
    /\ rlLast = NoLimiterCall
    /\ tally = NoTally

(***************************************************************************)
(* Memory cache: configuration, entries, operations                        *)
(***************************************************************************)
CacheConfig == [Enabled |-> TRUE, CleanupInterval |-> 1, MaxEntries |-> 0]

SmallCacheConfig == [CacheConfig EXCEPT !.MaxEntries = 1]

\* room for as many entries as there are keys
PairCacheConfig == [CacheConfig EXCEPT !.MaxEntries = 2]

DisabledCacheConfig == [CacheConfig EXCEPT !.Enabled = FALSE]

\* a cache built without the background sweep
NoSweepConfig == [CacheConfig EXCEPT !.CleanupInterval = 0]

\* a stored interface{} value: its dynamic type and its content (for a string
\* the number names the string; for a float the number counts halves)
StringValue(i) == [kind |-> "string", num |-> i]

Values == {StringValue(1), StringValue(2)}

\* no value: the nil interface{}
NoValue == [kind |-> "none", num |-> 0]

\* a ttl of zero or less stores an entry without expiration
TTLs == -1..MaxTTL

\* no entry under the key (an entry's expiration 0 is the zero time.Time)
NoEntry == [value |-> NoValue, expiration |-> -1]

\* evicted is the key Set removed to make room, or "none"; amount and prior are
\* the amount handed to Increment/Decrement and the entry it found under the
\* key; missing is the list of keys GetMulti returns as not found
NoCacheCall ==
    [op |-> "none", key |-> "none", found |-> FALSE, value |-> NoValue,
     evicted |-> "none", err |-> "nil", amount |-> 0, prior |-> NoEntry,
     missing |-> {}]

CacheReturned(op, k, found, value) ==
    [op |-> op, key |-> k, found |-> found, value |-> value, evicted |-> "none",
     err |-> "nil", amount |-> 0, prior |-> NoEntry, missing |-> {}]

\* an expiry test that already fails at the deadline itself
isExpiredAtDeadline(e, t) ==
    IF e.expiration = 0 THEN FALSE ELSE t >= e.expiration

\* cacheEntry.isExpired
isExpired(e, t) ==
    IF e.expiration = 0 THEN FALSE ELSE t > e.expiration

\* len(m.items)
Stored == {k \in Keys : items[k] # NoEntry}

\* a Set that lacks the test of Enabled
CacheCallDisabledStores(op, k) ==
    /\ ~cacheCfg.Enabled
    /\ items' = [items EXCEPT ![k] = [value |-> StringValue(1), expiration |-> 0]]
    /\ cLast' = CacheReturned(op, k, FALSE, NoValue)
    /\ UNCHANGED <<now, cacheCfg, deleters, sweeper>>

\* any operation on a cache with Enabled=false
CacheCallDisabled(op, k) ==
    /\ ~cacheCfg.Enabled
    /\ cLast' = CacheReturned(op, k, FALSE, NoValue)
    /\ UNCHANGED <<now, cacheCfg, items, deleters, sweeper>>

\* GetMulti, SetMulti or DeleteMulti on a cache with Enabled=false: GetMulti
\* returns a nil map and all of keys as missing, the others nil
CacheMultiDisabled(op, ks) ==
    /\ ~cacheCfg.Enabled
    /\ cLast' = [CacheReturned(op, "none", FALSE, NoValue)
                    EXCEPT !.missing = IF op = "GetMulti" THEN ks ELSE {}]
    /\ UNCHANGED <<now, cacheCfg, items, deleters, sweeper>>

\* memoryAdapter.Get, and memoryAdapter.Has which returns found of Get
Get(op, k) ==
    /\ cacheCfg.Enabled
    /\ IF items[k] = NoEntry
       THEN /\ cLast' = CacheReturned(op, k, FALSE, NoValue)
            /\ UNCHANGED deleters
       ELSE IF isExpired(items[k], now)
       THEN /\ deleters[k] < MaxDeleters
            /\ deleters' = [deleters EXCEPT ![k] = @ + 1]
            /\ cLast' = CacheReturned(op, k, FALSE, NoValue)
       ELSE /\ cLast' = CacheReturned(op, k, TRUE,
                                      IF op = "Get" THEN items[k].value ELSE NoValue)
            /\ UNCHANGED deleters
    /\ UNCHANGED <<now, cacheCfg, items, sweeper>>

\* the goroutine started by Get on an expired entry
AsyncDelete(k) ==
    /\ deleters[k] > 0
    /\ deleters' = [deleters EXCEPT ![k] = @ - 1]
    /\ items' = [items EXCEPT ![k] = NoEntry]
    /\ cLast' = CacheReturned("asyncDelete", k, FALSE, NoValue)
    /\ UNCHANGED <<now, cacheCfg, sweeper>>

\* a Set that never makes room
VictimsNone == {"none"}

\* the entries Set may remove before it inserts: any one of them when the
\* store is at MaxEntries, otherwise none
Victims ==
    IF cacheCfg.MaxEntries > 0 /\ Cardinality(Stored) >= cacheCfg.MaxEntries
    THEN Stored ELSE {"none"}

\* memoryAdapter.Set
Set(k, v, ttl) ==
    /\ cacheCfg.Enabled
    /\ \E victim \in Victims :
         LET kept == [j \in Keys |-> IF j = victim THEN NoEntry ELSE items[j]]
         IN  /\ items' = [kept EXCEPT ![k] =
                             [value |-> v,
                              expiration |-> IF ttl > 0 THEN now + ttl ELSE 0]]
             /\ cLast' = [CacheReturned("Set", k, FALSE, v) EXCEPT !.evicted = victim]
    /\ UNCHANGED <<now, cacheCfg, deleters, sweeper>>

\* no SetMulti call under way
NoMulti == [rest |-> <<>>, ttl |-> 0]

\* the maps a caller hands to SetMulti
Maps == UNION {[S -> Values] : S \in SUBSET Keys}

\* memoryAdapter.SetMulti, entered: the first entry of the range over the map
\* is Set (an empty map returns at once)
SetMultiCall(m, ttl) ==
    /\ cacheCfg.Enabled
    /\ multi = NoMulti
    /\ IF DOMAIN m = {}
       THEN /\ cLast' = CacheReturned("SetMulti", "none", FALSE, NoValue)
            /\ UNCHANGED <<now, cacheCfg, items, deleters, multi, sweeper>>
       ELSE \E k \in DOMAIN m :
            /\ Set(k, m[k], ttl)
            /\ multi' = IF DOMAIN m = {k} THEN NoMulti
                        ELSE [rest |-> [j \in DOMAIN m \ {k} |-> m[j]], ttl |-> ttl]

\* memoryAdapter.SetMulti, the next entry of the range
SetMultiNext ==
    /\ multi # NoMulti
    /\ \E k \in DOMAIN multi.rest :
        /\ Set(k, multi.rest[k], multi.ttl)
        /\ multi' = IF DOMAIN multi.rest = {k} THEN NoMulti
                    ELSE [multi EXCEPT !.rest = [j \in DOMAIN multi.rest \ {k} |-> multi.rest[j]]]

\* memoryAdapter.Delete
Delete(k) ==
    /\ cacheCfg.Enabled
    /\ items' = [items EXCEPT ![k] = NoEntry]
    /\ cLast' = CacheReturned("Delete", k, FALSE, NoValue)
    /\ UNCHANGED <<now, cacheCfg, deleters, sweeper>>

\* memoryAdapter.Clear
Clear ==
    /\ cacheCfg.Enabled
    /\ items' = [k \in Keys |-> NoEntry]
    /\ cLast' = CacheReturned("Clear", "none", FALSE, NoValue)
    /\ UNCHANGED <<now, cacheCfg, deleters, sweeper>>

\* startCleanup, case <-ticker.C of its select: the goroutine goes to sweep
TickerFires ==
    /\ sweeper = "select"
    /\ sweeper' = "cleanup"
    /\ cLast' = NoCacheCall
    /\ UNCHANGED <<now, cacheCfg, items, deleters>>

\* memoryAdapter.cleanup, run by startCleanup, which then selects again
cleanup ==
    /\ sweeper = "cleanup"
    /\ sweeper' = "select"
    /\ items' = [k \in Keys |-> IF items[k] # NoEntry /\ isExpired(items[k], now)
                                THEN NoEntry ELSE items[k]]
    /\ cLast' = CacheReturned("cleanup", "none", FALSE, NoValue)
    /\ UNCHANGED <<now, cacheCfg, deleters>>

\* int64, scaled: MaxInt stands for math.MaxInt64
Int64 == (0 - MaxInt - 1)..MaxInt

\* int64 arithmetic wraps around
Wrap(v) == ((v + MaxInt + 1) % (2 * (MaxInt + 1))) - (MaxInt + 1)

IntKinds == {"int", "int32", "int64"}

FloatKinds == {"float32", "float64"}

Int64Value(n) == [kind |-> "int64", num |-> n]

\* a type switch with a case for every type
NumericAny(v) == TRUE

\* the cases of the type switch in Increment
Numeric(v) == v.kind \in IntKinds \cup FloatKinds

\* a conversion that forgets the stored number
ToInt64Zero(v) == 0

\* int64(v): an integer keeps its number, a float (counted in halves) is
\* truncated toward zero
ToInt64(v) ==
    IF v.kind \in FloatKinds
    THEN IF v.num >= 0 THEN v.num \div 2 ELSE 0 - ((0 - v.num) \div 2)
    ELSE v.num

\* an addition that drops the amount
SumLost(value, amount) == value

\* value += amount
Sum(value, amount) == Wrap(value + amount)

\* memoryAdapter.Increment with the amount delta, called as op with amount
IncrementAs(op, k, amount, delta) ==
    /\ IF ~cacheCfg.Enabled
       THEN /\ cLast' = [CacheReturned(op, k, FALSE, Int64Value(0))
                            EXCEPT !.err = "disabled", !.amount = amount]
            /\ UNCHANGED items
       ELSE LET entry == items[k]
                found == entry # NoEntry
                live  == found /\ ~isExpired(entry, now)
            IN  IF live /\ ~Numeric(entry.value)
                THEN /\ cLast' = [CacheReturned(op, k, FALSE, Int64Value(0))
                                     EXCEPT !.err = "notNumber", !.amount = amount,
                                            !.prior = entry]
                     /\ UNCHANGED items
                ELSE LET value == Sum(IF live THEN ToInt64(entry.value) ELSE 0, delta)
                     IN  /\ items' = [items EXCEPT ![k] =
                                         [value |-> Int64Value(value),
                                          expiration |-> IF found THEN entry.expiration
                                                         ELSE 0]]
                         /\ cLast' = [CacheReturned(op, k, TRUE, Int64Value(value))
                                         EXCEPT !.amount = amount, !.prior = entry]
    /\ UNCHANGED <<now, cacheCfg, deleters, sweeper>>

\* memoryAdapter.Increment
Increment(k, amount) == IncrementAs("Increment", k, amount, amount)

\* memoryAdapter.Decrement: Increment with -amount
Decrement(k, amount) == IncrementAs("Decrement", k, amount, Wrap(0 - amount))

\* nobody has called Close; midSweep records that a call was made while the
\* goroutine was sweeping
NoClosers ==
    [pc |-> [p \in Procs |-> "idle"], calls |-> 0, returned |-> 0, midSweep |-> FALSE]

\* a goroutine that goes on selecting after it has received from stopClean
AfterStopLoops == "select"

\* startCleanup after case <-m.stopClean: it returns
AfterStop == "stopped"

\* memoryAdapter.Close, entered: with CleanupInterval > 0 the caller blocks in
\* the send on the unbuffered stopClean, otherwise it returns nil at once
CloseCall(p, maxCloses) ==
    /\ closers.pc[p] = "idle"
    /\ closers.calls < maxCloses
    /\ IF cacheCfg.CleanupInterval > 0
       THEN /\ closers' = [closers EXCEPT !.pc[p] = "send", !.calls = @ + 1,
                                          !.midSweep = @ \/ sweeper = "cleanup"]
            /\ cLast' = NoCacheCall
       ELSE /\ closers' = [closers EXCEPT !.calls = @ + 1, !.returned = @ + 1]
            /\ cLast' = CacheReturned("Close", "none", FALSE, NoValue)
    /\ UNCHANGED <<now, cacheCfg, items, deleters, sweeper>>

\* startCleanup, case <-m.stopClean of its select: the send of one blocked
\* Close goes through, that Close returns nil and the goroutine returns
StopReceive(p) ==
    /\ sweeper = "select"
    /\ closers.pc[p] = "send"
    /\ sweeper' = AfterStop
    /\ closers' = [closers EXCEPT !.pc[p] = "idle", !.returned = @ + 1]
    /\ cLast' = CacheReturned("Close", "none", FALSE, NoValue)
    /\ UNCHANGED <<now, cacheCfg, items, deleters>>

\* no race of Increment calls is followed
NoCounts == [callers |-> {}, rets |-> {}, from |-> 0]

\* NewMemoryAdapter
InitCache(cfgs) ==
    /\ cacheCfg \in cfgs
    /\ items = [k \in Keys |-> NoEntry]
    /\ deleters = [k \in Keys |-> 0]
    /\ cLast = NoCacheCall
    /\ multi = NoMulti
    /\ sweeper = IF cacheCfg.CleanupInterval > 0 THEN "select" ELSE "none"
    /\ closers = NoClosers
    /\ counts = NoCounts

Init ==
    /\ now = 1
    /\ InitCache({CacheConfig})
    /\ InitBreaker({SmallConfig, DisabledConfig})
    /\ InitLimiter({LimiterConfig})

\* concurrent callers of one key's breaker
Next ==
  /\ UNCHANGED <<rlVars, cacheVars>>
  /\
    \/ Tick(MaxTime) /\ UNCHANGED cbVars
    \/ \E p \in Procs, k \in OneKey, o \in {ErrNil, ErrFn} : ExecuteDisabled(p, k, o, MaxCalls)
    \/ \E p \in Procs, k \in OneKey : ExecuteCall(p, k, MaxCalls)
    \/ \E p \in Procs : GetBreakerCreate(p)
    \/ \E p \in Procs : BreakerEnter(p)
    \/ \E p \in Procs, o \in {ErrNil, ErrFn} : FnReturn(p, o, FALSE)
    \/ \E p \in Procs : BreakerRecord(p)
    \/ \E p \in Procs : AdapterCheck(p)
    \/ \E p \in Procs, k \in OneKey : GetStateCall(p, k)
    \/ \E p \in Procs : GetStateReturn(p)
    \/ \E p \in Procs, k \in OneKey : Reset(p, k)

vars == <<now, cbVars, rlVars, cacheVars>>

Spec == Init /\ [][Next]_vars

\* one caller feeding sequential requests to a breaker with DefaultConfig()
InitTrip ==
    /\ now = 1
    /\ InitCache({CacheConfig})
    /\ InitBreaker({DefaultConfig})
    /\ InitLimiter({LimiterConfig})

NextTrip ==
  /\ UNCHANGED <<rlVars, cacheVars>>
  /\
    \/ \E p \in OneProc, k \in OneKey : ExecuteCall(p, k, MaxSeqCalls)
    \/ \E p \in OneProc : GetBreakerCreate(p)
    \/ \E p \in OneProc : BreakerEnter(p)
    \/ \E p \in OneProc, o \in {ErrNil, ErrFn} : FnReturn(p, o, TRUE)
    \/ \E p \in OneProc : BreakerRecord(p)
    \/ \E p \in OneProc : AdapterCheck(p)
    \/ \E p \in OneProc, k \in OneKey : GetStateCall(p, k)
    \/ \E p \in OneProc : GetStateReturn(p)

SpecTrip == InitTrip /\ [][NextTrip]_vars

\* concurrent callers of one key's breaker whose probe budget is one request
InitProbe ==
    /\ now = 1
    /\ InitCache({CacheConfig})
    /\ InitBreaker({ProbeConfig})
    /\ InitLimiter({LimiterConfig})

NextProbe ==
  /\ UNCHANGED <<rlVars, cacheVars>>
  /\
    \/ Tick(MaxTime) /\ UNCHANGED cbVars
    \/ \E p \in Procs, k \in OneKey : ExecuteCall(p, k, MaxCalls)
    \/ \E p \in Procs : GetBreakerCreate(p)
    \/ \E p \in Procs : BreakerEnter(p)
    \/ \E p \in Procs, o \in {ErrNil, ErrFn} : FnReturn(p, o, FALSE)
    \/ \E p \in Procs : BreakerRecord(p)
    \/ \E p \in Procs : AdapterCheck(p)
    \/ \E p \in Procs, k \in OneKey : GetStateCall(p, k)
    \/ \E p \in Procs : GetStateReturn(p)

SpecProbe == InitProbe /\ [][NextProbe]_vars

\* concurrent callers of ExecuteWithFallback on one key, with and without a
\* fallback, on an enabled and on a disabled breaker
InitFallback ==
    /\ now = 1
    /\ InitCache({CacheConfig})
    /\ InitBreaker({SmallConfig, DisabledConfig})
    /\ InitLimiter({LimiterConfig})

NextFallback ==
  /\ UNCHANGED <<rlVars, cacheVars>>
  /\
    \/ Tick(MaxTime) /\ UNCHANGED cbVars
    \/ \E p \in Procs, k \in OneKey, o \in {ErrNil, ErrFn}, fb \in BOOLEAN :
            ExecuteWithFallbackDisabled(p, k, o, fb, MaxCalls)
    \/ \E p \in Procs, k \in OneKey, fb \in BOOLEAN :
            ExecuteWithFallbackCall(p, k, fb, MaxCalls)
    \/ \E p \in Procs : GetBreakerCreate(p)
    \/ \E p \in Procs : BreakerEnter(p)
    \/ \E p \in Procs, o \in {ErrNil, ErrFn} : FnReturn(p, o, FALSE)
    \/ \E p \in Procs : BreakerRecord(p)
    \/ \E p \in Procs : AdapterCheck(p)
    \/ \E p \in Procs, o \in {FallbackOk, ErrFallback} : FallbackReturn(p, o)

SpecFallback == InitFallback /\ [][NextFallback]_vars

\* one caller using and resetting the breakers of two keys
InitReset ==
    /\ now = 1
    /\ InitCache({CacheConfig})
    /\ InitBreaker({SmallConfig})
    /\ InitLimiter({LimiterConfig})

NextReset ==
  /\ UNCHANGED <<rlVars, cacheVars>>
  /\
    \/ Tick(MaxTime) /\ UNCHANGED cbVars
    \/ \E p \in OneProc, k \in Keys : ExecuteCallFrom(p, k, MaxCalls, TRUE)
    \/ \E p \in OneProc : GetBreakerCreate(p)
    \/ \E p \in OneProc : BreakerEnter(p)
    \/ \E p \in OneProc, o \in {ErrNil, ErrFn} : FnReturn(p, o, FALSE)
    \/ \E p \in OneProc : BreakerRecord(p)
    \/ \E p \in OneProc : AdapterCheck(p)
    \/ \E p \in OneProc, k \in Keys : GetStateCall(p, k)
    \/ \E p \in OneProc : GetStateReturn(p)
    \/ \E p \in OneProc, k \in Keys : Reset(p, k)

SpecReset == InitReset /\ [][NextReset]_vars

\* concurrent callers of Execute and GetState on one key whose breaker
\* notifies of its state changes
InitNotify ==
    /\ now = 1
    /\ InitCache({CacheConfig})
    /\ InitBreaker({SmallConfig, ProbeConfig})
    /\ InitLimiter({LimiterConfig})

NextNotify ==
  /\ UNCHANGED <<rlVars, cacheVars>>
  /\
    \/ Tick(MaxTime) /\ UNCHANGED cbVars
    \/ \E p \in Procs, k \in OneKey : ExecuteCall(p, k, MaxCalls)
    \/ \E p \in Procs : GetBreakerCreate(p)
    \/ \E p \in Procs : BreakerEnter(p)
    \/ \E p \in Procs, o \in {ErrNil, ErrFn} : FnReturn(p, o, FALSE)
    \/ \E p \in Procs : BreakerRecord(p)
    \/ \E p \in Procs : AdapterCheck(p)
    \/ \E p \in Procs, k \in OneKey : GetStateCall(p, k)
    \/ \E p \in Procs : GetStateReturn(p)

SpecNotify == InitNotify /\ [][NextNotify]_vars

\* concurrent callers of a breaker adapter and of a limiter whose stores are
\* empty at the start: first accesses of a key race with each other
InitFirst ==
    /\ now = 1
    /\ InitCache({CacheConfig})
    /\ InitBreaker({SmallConfig})
    /\ InitLimiter({LimiterConfig})

NextFirst ==
  /\ UNCHANGED <<now, cacheVars>>
  /\
    \/ /\ UNCHANGED rlVars
       /\ \/ \E p \in Procs, k \in Keys : ExecuteCall(p, k, MaxFirstCalls)
          \/ \E p \in Procs : GetBreakerCreate(p)
          \/ \E p \in Procs : BreakerEnter(p)
          \/ \E p \in Procs, o \in {ErrNil, ErrFn} : FnReturn(p, o, FALSE)
          \/ \E p \in Procs : BreakerRecord(p)
          \/ \E p \in Procs : AdapterCheck(p)
    \/ /\ UNCHANGED cbVars
       /\ \/ \E p \in Procs, k \in OneKey : LimiterCall(p, "Allow", k, 1, FALSE, FALSE)
          \/ \E p \in Procs : GetLimiterCreate(p)
          \/ \E p \in Procs : DoAllow(p, FALSE)

SpecFirst == InitFirst /\ [][NextFirst]_vars

\* concurrent callers of one key's bucket
InitLimiterSpec ==
    /\ now = 1
    /\ InitCache({CacheConfig})
    /\ InitBreaker({SmallConfig})
    /\ InitLimiter({LimiterConfig, DisabledLimiterConfig})

NextLimiter ==
  /\ UNCHANGED <<cbVars, cacheVars>>
  /\
    \/ Tick(MaxLimiterTime) /\ rlLast' = NoLimiterCall
            /\ UNCHANGED <<rlCfg, limiters, rlProc, tally>>
    \/ \E p \in Procs, op \in LimiterOps, k \in OneKey :
            \E n \in Amounts(op) : LimiterCallDisabled(p, op, k, n)
    \/ \E p \in Procs, op \in LimiterOps, k \in OneKey :
            \E n \in Amounts(op), c \in Contexts(op) : LimiterCall(p, op, k, n, c, FALSE)
    \/ \E p \in Procs : GetLimiterCreate(p)
    \/ \E p \in Procs : DoAllow(p, FALSE)
    \/ \E p \in Procs : DoAllowN(p)
    \/ \E p \in Procs : DoReserve(p)
    \/ \E p \in Procs : DoWait(p)
    \/ \E p \in Procs : WaitPark(p)
    \/ \E p \in Procs : WaitTimerFires(p)
    \/ \E p \in Procs : CtxCancel(p)
    \/ \E p \in Procs : WaitCtxDone(p)

SpecLimiter == InitLimiterSpec /\ [][NextLimiter]_vars

\* a race: every caller calls Allow on the same key at most once, at one
\* instant, on a bucket holding c whole tokens (a new key's bucket is full)
InitRace ==
    /\ now = 1
    /\ InitCache({CacheConfig})
    /\ InitBreaker({SmallConfig})
    /\ rlCfg = LimiterConfig
    /\ rlProc = [p \in RaceProcs |-> IdleCaller]
    /\ rlLast = NoLimiterCall
    /\ \E c \in 0..LimiterConfig.Burst :
        /\ tally = [NoTally EXCEPT !.c = c]
        /\ \/ limiters = [k \in Keys |-> IF k \in OneKey
                                         THEN [tokens |-> Units(c, LimiterConfig), last |-> 1]
                                         ELSE NoLimiter]
           \/ c = LimiterConfig.Burst /\ limiters = [k \in Keys |-> NoLimiter]

NextRace ==
  /\ UNCHANGED <<cbVars, cacheVars>>
  /\
    \/ \E p \in RaceProcs, k \in OneKey :
            p \notin tally.callers /\ LimiterCall(p, "Allow", k, 1, FALSE, TRUE)
    \/ \E p \in RaceProcs : GetLimiterCreate(p)
    \/ \E p \in RaceProcs : DoAllow(p, TRUE)

SpecRace == InitRace /\ [][NextRace]_vars


\* callers that wait for tokens of one key while others take them; the clock
\* keeps advancing up to its bound and every goroutine that can take a step
\* is scheduled in the end, while no context is ever bound to be cancelled
InitWait ==
    /\ now = 1
    /\ InitCache({CacheConfig})
    /\ InitBreaker({SmallConfig})
    /\ InitLimiter({LimiterConfig})

ClockTick ==
    /\ Tick(MaxLimiterTime) /\ rlLast' = NoLimiterCall
    /\ UNCHANGED <<rlCfg, limiters, rlProc, tally>>

\* the steps of a call once it is made
CallerStep(p) ==
    \/ GetLimiterCreate(p)
    \/ DoAllow(p, FALSE)
    \/ DoWait(p)
    \/ WaitPark(p)
    \/ WaitTimerFires(p)
    \/ WaitCtxDone(p)

NextWait ==
  /\ UNCHANGED <<cbVars, cacheVars>>
  /\
    \/ ClockTick
    \/ \E p \in Procs, op \in {"Allow", "Wait", "WaitN"}, k \in OneKey :
            \E n \in Amounts(op) \cap 0..MaxWaitN : LimiterCall(p, op, k, n, FALSE, FALSE)
    \/ \E p \in Procs : CallerStep(p)
    \/ \E p \in Procs : CtxCancel(p)

SpecWait ==
    /\ InitWait /\ [][NextWait]_vars
    /\ WF_vars(ClockTick /\ UNCHANGED <<cbVars, cacheVars>>)
    /\ \A p \in Procs : WF_vars(CallerStep(p) /\ UNCHANGED <<cbVars, cacheVars>>)

\* callers polling one key with Allow while the clock advances
InitPoll ==
    /\ now = 1
    /\ InitCache({CacheConfig})
    /\ InitBreaker({SmallConfig})
    /\ InitLimiter({LimiterConfig, FineConfig})

NextPoll ==
  /\ UNCHANGED <<cbVars, cacheVars>>
  /\
    \/ ClockTick
    \/ \E p \in Procs, k \in OneKey : LimiterCall(p, "Allow", k, 1, FALSE, TRUE)
    \/ \E p \in Procs : GetLimiterCreate(p)
    \/ \E p \in Procs : DoAllow(p, TRUE)

SpecPoll == InitPoll /\ [][NextPoll]_vars

DisabledFineConfig == [FineConfig EXCEPT !.Enabled = FALSE]

\* callers of a limiter built with Enabled=false, whatever its other settings
InitLimiterOff ==
    /\ now = 1
    /\ InitCache({CacheConfig})
    /\ InitBreaker({SmallConfig})
    /\ InitLimiter({DisabledLimiterConfig, DisabledFineConfig})

NextLimiterOff ==
  /\ UNCHANGED <<cbVars, cacheVars>>
  /\
    \/ ClockTick
    \/ \E p \in Procs, op \in LimiterOps, k \in Keys :
            \E n \in Amounts(op) : LimiterCallDisabled(p, op, k, n)

SpecLimiterOff == InitLimiterOff /\ [][NextLimiterOff]_vars

\* one caller taking and reserving tokens of a bucket whose refill per tick
\* is not a whole multiple of the smallest count it can lack
InitReserve ==
    /\ now = 1
    /\ InitCache({CacheConfig})
    /\ InitBreaker({SmallConfig})
    /\ InitLimiter({FineConfig})

NextReserve ==
  /\ UNCHANGED <<cbVars, cacheVars>>
  /\
    \/ Tick(MaxLimiterTime) /\ rlLast' = NoLimiterCall
            /\ UNCHANGED <<rlCfg, limiters, rlProc, tally>>
    \/ \E p \in OneProc, op \in {"Allow", "Reserve", "ReserveN"}, k \in Keys :
            \E n \in Amounts(op) : LimiterCall(p, op, k, n, FALSE, FALSE)
    \/ \E p \in OneProc : GetLimiterCreate(p)
    \/ \E p \in OneProc : DoAllow(p, FALSE)
    \/ \E p \in OneProc : DoReserve(p)

SpecReserve == InitReserve /\ [][NextReserve]_vars

\* callers of the cache, the sweep and the deleting goroutines of Get
InitCacheSpec ==
    /\ now = 1
    /\ InitBreaker({SmallConfig})
    /\ InitLimiter({LimiterConfig})
    /\ InitCache({CacheConfig, SmallCacheConfig, DisabledCacheConfig})

NextCache ==
  /\ UNCHANGED <<cbVars, rlVars, multi, closers, counts>>
  /\
    \/ Tick(MaxCacheTime) /\ cLast' = NoCacheCall
            /\ UNCHANGED <<cacheCfg, items, deleters, sweeper>>
    \/ \E op \in {"Get", "Has", "Set", "Delete", "Clear"}, k \in Keys :
            CacheCallDisabled(op, k)
    \/ \E op \in {"Get", "Has"}, k \in Keys : Get(op, k)
    \/ \E k \in Keys : AsyncDelete(k)
    \/ \E k \in Keys, v \in Values, ttl \in TTLs : Set(k, v, ttl)
    \/ \E k \in Keys : Delete(k)
    \/ Clear
    \/ TickerFires
    \/ cleanup

SpecCache == InitCacheSpec /\ [][NextCache]_vars

\* callers filling a cache with MaxEntries set, by Set and SetMulti
InitEvict ==
    /\ now = 1
    /\ InitBreaker({SmallConfig})
    /\ InitLimiter({LimiterConfig})
    /\ InitCache({SmallCacheConfig})

NextEvict ==
  /\ UNCHANGED <<cbVars, rlVars, closers, counts>>
  /\
    \/ Tick(MaxCacheTime) /\ cLast' = NoCacheCall
            /\ UNCHANGED <<cacheCfg, items, deleters, multi, sweeper>>
    \/ \E k \in Keys, v \in Values, ttl \in TTLs : Set(k, v, ttl) /\ UNCHANGED multi
    \/ \E m \in Maps, ttl \in TTLs : SetMultiCall(m, ttl)
    \/ SetMultiNext

SpecEvict == InitEvict /\ [][NextEvict]_vars

\* the values callers store under a counter key: integers and floats of
\* several types, a string, and a number of a type Increment has no case for
CounterValues ==
    {[kind |-> "int", num |-> 1], [kind |-> "int32", num |-> 0 - 2],
     [kind |-> "float64", num |-> 3], [kind |-> "uint", num |-> 1],
     StringValue(1)}

\* callers counting under one key while the clock advances and the sweep runs
InitCounter ==
    /\ now = 1
    /\ InitBreaker({SmallConfig})
    /\ InitLimiter({LimiterConfig})
    /\ InitCache({CacheConfig, DisabledCacheConfig})

NextCounter ==
  /\ UNCHANGED <<cbVars, rlVars, multi, closers, counts>>
  /\
    \/ Tick(MaxTime) /\ cLast' = NoCacheCall
            /\ UNCHANGED <<cacheCfg, items, deleters, sweeper>>
    \/ \E k \in OneKey, v \in CounterValues, ttl \in 0..1 : Set(k, v, ttl)
    \/ \E k \in Keys \ OneKey : Set(k, StringValue(2), 0)
    \/ \E k \in OneKey, a \in Int64 : Increment(k, a)
    \/ \E k \in OneKey, a \in Int64 : Decrement(k, a)
    \/ TickerFires
    \/ cleanup

SpecCounter == InitCounter /\ [][NextCounter]_vars

\* callers that store, count and delete under a bound on the entries, of one
\* entry or of two; no entry carries a deadline
InitBound ==
    /\ now = 1
    /\ InitBreaker({SmallConfig})
    /\ InitLimiter({LimiterConfig})
    /\ InitCache({SmallCacheConfig, PairCacheConfig})

NextBound ==
  /\ UNCHANGED <<cbVars, rlVars, multi, closers, counts>>
  /\
    \/ \E k \in Keys, v \in Values : Set(k, v, 0)
    \/ \E k \in Keys : Delete(k)
    \/ \E k \in Keys, a \in 0..1 : Increment(k, a)
    \/ \E k \in Keys, a \in 0..1 : Decrement(k, a)

SpecBound == InitBound /\ [][NextBound]_vars

\* what the key holds when the race of Increment calls begins: nothing, or an
\* integer stored without expiration
CountStarts ==
    {NoEntry, [value |-> [kind |-> "int", num |-> 0 - 2], expiration |-> 0],
     [value |-> Int64Value(0), expiration |-> 0]}

\* one caller's Increment(k, 1) in the race
IncrementRace(p, k) ==
    /\ p \notin counts.callers
    /\ Increment(k, 1)
    /\ counts' = [counts EXCEPT !.callers = @ \cup {p},
                                !.rets = @ \cup {cLast'.value.num}]

\* callers racing to Increment one key, readers of the key and the sweep
InitCount ==
    /\ now = 1
    /\ InitBreaker({SmallConfig})
    /\ InitLimiter({LimiterConfig})
    /\ cacheCfg = CacheConfig
    /\ \E e \in CountStarts :
        /\ items = [k \in Keys |-> IF k \in OneKey THEN e ELSE NoEntry]
        /\ counts = [NoCounts EXCEPT !.from = IF e = NoEntry THEN 0 ELSE e.value.num]
    /\ deleters = [k \in Keys |-> 0]
    /\ cLast = NoCacheCall
    /\ multi = NoMulti
    /\ sweeper = "select"
    /\ closers = NoClosers

NextCount ==
  /\ UNCHANGED <<cbVars, rlVars, multi, closers>>
  /\
    \/ Tick(MaxTime) /\ cLast' = NoCacheCall
            /\ UNCHANGED <<cacheCfg, items, deleters, sweeper, counts>>
    \/ \E p \in RaceProcs, k \in OneKey : IncrementRace(p, k)
    \/ \E op \in {"Get", "Has"}, k \in OneKey : Get(op, k) /\ UNCHANGED counts
    \/ TickerFires /\ UNCHANGED counts
    \/ cleanup /\ UNCHANGED counts

SpecCount == InitCount /\ [][NextCount]_vars

\* callers of a cache built with Enabled=false, whose sweeping goroutine runs
InitCacheOff ==
    /\ now = 1
    /\ InitBreaker({SmallConfig})
    /\ InitLimiter({LimiterConfig})
    /\ InitCache({DisabledCacheConfig})

NextCacheOff ==
  /\ UNCHANGED <<cbVars, rlVars, multi, closers, counts>>
  /\
    \/ Tick(MaxCacheTime) /\ cLast' = NoCacheCall
            /\ UNCHANGED <<cacheCfg, items, deleters, sweeper>>
    \/ \E op \in {"Get", "Has", "Set", "Delete", "Clear"}, k \in Keys :
            CacheCallDisabled(op, k)
    \/ \E op \in {"GetMulti", "SetMulti", "DeleteMulti"}, ks \in SUBSET Keys :
            CacheMultiDisabled(op, ks)
    \/ \E k \in Keys, a \in Int64 : Increment(k, a)
    \/ \E k \in Keys, a \in Int64 : Decrement(k, a)
    \/ TickerFires
    \/ cleanup

SpecCacheOff == InitCacheOff /\ [][NextCacheOff]_vars

\* callers closing the cache while entries expire and the goroutine sweeps
InitClose ==
    /\ now = 1
    /\ InitBreaker({SmallConfig})
    /\ InitLimiter({LimiterConfig})
    /\ InitCache({CacheConfig, NoSweepConfig})

\* a step of the goroutine of startCleanup
SweeperStep == TickerFires \/ cleanup

\* the goroutine receives the stop signal of some Close
StopStep == \E p \in Procs : StopReceive(p)

NextClose ==
  /\ UNCHANGED <<cbVars, rlVars, multi, counts>>
  /\
    \/ Tick(MaxTime) /\ cLast' = NoCacheCall
            /\ UNCHANGED <<cacheCfg, items, deleters, sweeper, closers>>
    \/ \E k \in OneKey, v \in Values, ttl \in 0..1 : Set(k, v, ttl) /\ UNCHANGED closers
    \/ SweeperStep /\ UNCHANGED closers
    \/ \E p \in Procs : CloseCall(p, MaxCloses)
    \/ StopStep

\* the goroutine is scheduled, and its select, which picks at random among
\* the ready cases, picks the stop signal sooner or later
SpecClose ==
    /\ InitClose /\ [][NextClose]_vars
    /\ WF_vars(SweeperStep /\ UNCHANGED <<cbVars, rlVars, multi, counts, closers>>)
    /\ SF_vars(StopStep /\ UNCHANGED <<cbVars, rlVars, multi, counts>>)

(***************************************************************************)
(* Circuit breaker: properties                                             *)
(***************************************************************************)
\* caller p is inside Execute and holds a breaker
InExecute(p) == cbProc[p].op = "Execute" /\ cbProc[p].ref # 0

\* the breaker caller p holds
Held(p) == objs[cbProc[p].ref]

WithinSleepWindow(cb) == now - cb.lastStateChangeTime <= cbCfg.SleepWindow

\* C1: an Execute that finds its breaker Open inside the SleepWindow does not
\* invoke fn, leaves the breaker (state and every counter) as it is, and
\* returns the breaker-open error.
C1_OpenFailsFast ==
    [][\A p \in Procs :
        (InExecute(p) /\ Held(p).state = stateOpen /\ WithinSleepWindow(Held(p))) =>
            /\ (cbProc[p].pc = "enter" /\ cbProc'[p].pc # "enter") =>
                    /\ cbProc'[p].pc = "check"
                    /\ ~cbProc'[p].invoked
                    /\ cbProc'[p].err \in OpenErrors
                    /\ objs'[cbProc[p].ref] = Held(p)
            /\ (cbProc[p].pc = "check" /\ ~cbProc[p].invoked /\ cbProc'[p].pc = "idle") =>
                    /\ cbLast' = [NoCall EXCEPT !.op = "Execute", !.key = cbProc[p].key,
                                                !.err = ErrOpenInner,
                                                !.ret = ErrOpenNamed]
                    /\ objs'[cbProc[p].ref] \in {Held(p), NoObj}
      ]_vars

\* a refused Execute has just returned while the key's breaker is Open and
\* inside its SleepWindow
C1_Witness ==
    /\ cbLast.op = "Execute" /\ ~cbLast.invoked /\ cbLast.ret = ErrOpenNamed
    /\ \E k \in Keys :
        /\ breakers[k] # 0
        /\ objs[breakers[k]].state = stateOpen
        /\ WithinSleepWindow(objs[breakers[k]])
        /\ objs[breakers[k]].counts # ZeroCounts

\* C2: after exactly RequestVolumeThreshold (20) sequential requests GetState
\* returns Open when the failures reach ErrorThresholdPercentage (at least
\* 10 failed, in any order) and Closed otherwise.
C2_TripAfterEveryRequest ==
    (/\ cbLast.op = "GetState"
     /\ \A p \in Procs : cbProc[p].pc = "idle"
     /\ hist = cbCfg.RequestVolumeThreshold)
    => cbLast.ret = IF failed * 100 >= cbCfg.ErrorThresholdPercentage * hist
                    THEN StateOpen ELSE StateClosed

\* C3: a failure recorded while the breaker is HalfOpen moves it to Open in
\* that same step.
C3_HalfOpenFailureReopens ==
    [][\A p \in Procs :
        (/\ InExecute(p) /\ cbProc[p].pc = "record" /\ cbProc[p].err # ErrNil
         /\ Held(p).state = stateHalfOpen
         /\ cbProc'[p].pc # "record")
        => objs'[cbProc[p].ref].state = stateOpen
      ]_vars

\* C4: an Execute that finds its breaker Open with the SleepWindow elapsed
\* promotes it to HalfOpen and invokes fn.
C4_ExecutePromotesAndProbes ==
    [][\A p \in Procs :
        (/\ InExecute(p) /\ cbProc[p].pc = "enter"
         /\ Held(p).state = stateOpen /\ ~WithinSleepWindow(Held(p))
         /\ cbProc'[p].pc # "enter")
        => /\ cbProc'[p].pc = "fn"
           /\ objs'[cbProc[p].ref].state = stateHalfOpen
      ]_vars

\* C5: an Execute that invoked fn returns fn's own outcome: "ok" when fn
\* succeeded, fn's error when it failed.
C5_FnOutcomeUnchanged ==
    (cbLast.op = "Execute" /\ cbLast.invoked) =>
        cbLast.ret = IF cbLast.err = ErrNil THEN "ok" ELSE cbLast.err

(***************************************************************************)
(* Rate limiter: properties                                                *)
(***************************************************************************)
\* C6: every key's token count stays within 0 .. capacity (Burst).
C6_TokenBound ==
    \A k \in Keys :
        limiters[k] # NoLimiter =>
            /\ 0 <= limiters[k].tokens
            /\ limiters[k].tokens <= Capacity(rlCfg)

\* a call for more than the bucket can hold was refused on a bucket that a
\* refill after its creation had brought back to capacity
C6_Witness ==
    /\ rlLast.op = "AllowN" /\ rlLast.ret = "false"
    /\ limiters[rlLast.key].tokens = Capacity(rlCfg)
    /\ limiters[rlLast.key].last > 1

\* the call let its caller in
Admitted(c) ==
    \/ c.op \in {"Allow", "AllowN"} /\ c.ret = "true"
    \/ c.op \in {"Reserve", "ReserveN"} /\ c.ret = "duration" /\ c.wait = 0
    \/ c.op \in {"Wait", "WaitN"} /\ c.ret = "nil"

\* C7: every admission granted by an enabled limiter took the n tokens it
\* was granted for from the key's bucket.
C7_AdmissionConsumes ==
    (rlCfg.Enabled /\ Admitted(rlLast)) => rlLast.spent = Units(rlLast.n, rlCfg)

\* C8: when N callers have each called Allow once on a bucket of c whole
\* tokens at one instant, min(N, c) of them were let in and c - min(N, c)
\* tokens are left.
C8_NoDoubleSpend ==
    (\A p \in RaceProcs : rlProc[p].pc = "idle") =>
        LET m == Min(Cardinality(tally.callers), tally.c)
        IN  /\ Cardinality(tally.granted) = m
            /\ \A k \in OneKey :
                    tally.callers # {} =>
                        limiters[k].tokens = Units(tally.c - m, rlCfg)

\* three callers raced for two tokens
C8_Witness ==
    /\ \A p \in RaceProcs : rlProc[p].pc = "idle"
    /\ tally.callers = RaceProcs
    /\ tally.c = 2
    /\ Cardinality(tally.granted) = 2

(***************************************************************************)
(* Memory cache: properties                                                *)
(***************************************************************************)
\* C9: an entry stored without expiration leaves the cache, or changes, only
\* by Delete of its key, by Clear, or by a Set (a later write to its key or a
\* capacity eviction); never by the sweep or by the removal a Get started.
C9_PermanentEntryStays ==
    [][\A k \in Keys :
        (cacheCfg.Enabled /\ items[k] # NoEntry /\ items[k].expiration = 0
            /\ items'[k] # items[k]) =>
                \/ cLast'.op = "Delete" /\ cLast'.key = k
                \/ cLast'.op = "Clear"
                \/ cLast'.op = "Set"]_vars

\* C10: Get and Has of a key holding an entry with an expiration report found
\* (Get with the stored value) exactly while now <= expiration, and never
\* hand out a value otherwise.
C10_LazyExpiry ==
    [][\A k \in Keys :
        (cacheCfg.Enabled /\ cLast'.op \in {"Get", "Has"} /\ cLast'.key = k
            /\ items[k] # NoEntry /\ items[k].expiration > 0) =>
                /\ cLast'.found = (now <= items[k].expiration)
                /\ cLast'.value = IF cLast'.op = "Get" /\ now <= items[k].expiration
                                  THEN items[k].value ELSE NoValue]_vars

\* Get reported not-found for an expired entry that no sweep has removed
C10_Witness ==
    /\ cLast.op = "Get" /\ ~cLast.found
    /\ items[cLast.key] # NoEntry
    /\ items[cLast.key].expiration > 0
    /\ now > items[cLast.key].expiration

\* C11: with MaxEntries = m > 0 the store never holds more than m entries
\* after a Set (one of its own or of SetMulti), and a Set performed on a
\* store holding m entries removes exactly one of them before it inserts.
C11_EvictOneAtCapacity ==
    [][(cacheCfg.MaxEntries > 0 /\ cLast'.op = "Set") =>
        /\ Cardinality(Stored') <= cacheCfg.MaxEntries
        /\ Cardinality(Stored) = cacheCfg.MaxEntries =>
            \E victim \in Stored :
                /\ cLast'.evicted = victim
                /\ items'[cLast'.key] # NoEntry
                /\ \A j \in Keys \ {cLast'.key} :
                        items'[j] = IF j = victim THEN NoEntry ELSE items[j]]_vars

\* a Set of one key has just pushed the other key out of a full store
C11_Witness ==
    /\ cLast.op = "Set"
    /\ cLast.evicted \notin {"none", cLast.key}
    /\ Stored = {cLast.key}
    /\ Cardinality(Stored) = cacheCfg.MaxEntries

\* C12: a half-open breaker becomes closed exactly in the step that records
\* the success bringing consecutiveSuccesses to MaxConcurrentRequests; while
\* it is half-open its consecutiveSuccesses is below MaxConcurrentRequests.
C12_HalfOpenCloses ==
    [][\A r \in ObjIds :
        (objs[r] # NoObj /\ objs[r].state = stateHalfOpen /\ objs'[r] # NoObj) =>
            /\ objs[r].counts.consecutiveSuccesses < cbCfg.MaxConcurrentRequests
            /\ objs'[r].state = stateClosed <=>
                \E p \in Procs :
                    /\ cbProc[p].pc = "record" /\ cbProc'[p].pc # "record"
                    /\ cbProc[p].ref = r /\ cbProc[p].err = ErrNil
                    /\ objs[r].counts.consecutiveSuccesses + 1
                            = cbCfg.MaxConcurrentRequests]_vars

\* every call has returned and the key's breaker is closed with its counters
\* just cleared: its half-open spell ended with the last recorded success
C12_Witness ==
    /\ \A p \in Procs : cbProc[p].pc = "idle"
    /\ cbLast.op = "Execute" /\ cbLast.ret = "ok"
    /\ breakers[cbLast.key] # 0
    /\ objs[breakers[cbLast.key]].state = stateClosed
    /\ objs[breakers[cbLast.key]].counts = ZeroCounts

\* C13: GetState of a key whose breaker is open returns Open before
\* SleepWindow has elapsed since the trip and HalfOpen once at least
\* SleepWindow has elapsed, the instant of exactly SleepWindow included.
C13_GetStatePromotes ==
    [][\A p \in Procs :
        (cbProc[p].pc = "state" /\ cbProc'[p].pc = "idle"
            /\ Held(p).state = stateOpen) =>
                cbLast'.ret =
                    IF now - Held(p).lastStateChangeTime >= cbCfg.SleepWindow
                    THEN StateHalfOpen ELSE StateOpen]_vars

\* the calls whose fn was let through by breaker r while it was half-open and
\* has not returned yet
Probes(r) == {p \in Procs : cbProc[p].pc = "fn" /\ cbProc[p].ref = r /\ cbProc[p].probe}

\* C14: a half-open breaker has at most MaxConcurrentRequests fn invocations
\* that it let through in flight at the same time.
C14_ProbeBudget ==
    \A r \in ObjIds :
        (objs[r] # NoObj /\ objs[r].state = stateHalfOpen) =>
            Cardinality(Probes(r)) <= cbCfg.MaxConcurrentRequests

\* the count a bucket holds at time t once the elapsed time is credited
Refilled(r, t) ==
    IF r.tokens + (t - r.last) * rlCfg.RefillPerTick > Capacity(rlCfg)
    THEN Capacity(rlCfg)
    ELSE r.tokens + (t - r.last) * rlCfg.RefillPerTick

\* C15: Allow (n = 1) and AllowN with n >= 1 set lastRefill to now and
\* return true iff min(capacity, tokens + elapsed * rate) >= n, leaving that
\* count less n; otherwise they return false and leave that count. A new
\* key's bucket starts with Burst tokens.
C15_AllowNRefillsThenTakes ==
    [][\A k \in Keys :
        /\ (limiters[k] = NoLimiter /\ limiters'[k] # NoLimiter) =>
                limiters'[k] = [tokens |-> rlCfg.Burst * rlCfg.UnitsPerToken, last |-> now]
        /\ (limiters[k] # NoLimiter /\ rlLast'.op \in {"Allow", "AllowN"}
                /\ rlLast'.key = k /\ rlLast'.n >= 1 /\ rlCfg.Enabled) =>
            LET have == Refilled(limiters[k], now)
                n == rlLast'.n * rlCfg.UnitsPerToken
            IN  /\ limiters'[k].last = now
                /\ rlLast'.ret = IF have >= n THEN "true" ELSE "false"
                /\ limiters'[k].tokens = IF have >= n THEN have - n ELSE have]_vars

\* an AllowN for one token was granted from a bucket that a refill had
\* brought to a count between whole tokens
C15_Witness ==
    /\ rlLast.op = "AllowN" /\ rlLast.n = 1 /\ rlLast.ret = "true"
    /\ limiters[rlLast.key].tokens % rlCfg.UnitsPerToken # 0
    /\ limiters[rlLast.key].last = now

\* C16: Reserve (n = 1) and ReserveN with n >= 1, after the refill: with at
\* least n tokens they take n and return a zero wait; otherwise they take
\* nothing and return a strictly positive wait, the time (n - tokens) / rate
\* in whole ticks. The wait is never negative.
C16_ReserveWaitPositive ==
    [][\A k \in Keys :
        (limiters[k] # NoLimiter /\ rlLast'.op \in {"Reserve", "ReserveN"}
            /\ rlLast'.key = k /\ rlLast'.n >= 1) =>
            LET have == Refilled(limiters[k], now)
                n == rlLast'.n * rlCfg.UnitsPerToken
            IN  /\ rlLast'.wait >= 0
                /\ have >= n => (rlLast'.wait = 0 /\ limiters'[k].tokens = have - n)
                /\ have < n =>
                    /\ limiters'[k].tokens = have
                    /\ rlLast'.wait > 0
                    /\ rlLast'.wait * rlCfg.RefillPerTick <= n - have
                    /\ n - have < (rlLast'.wait + 1) * rlCfg.RefillPerTick]_vars

\* caller p is suspended in Wait or WaitN
Suspended(p) == rlProc[p].pc \in {"timer", "parked", "cancelled"}

\* C17: a Wait or WaitN that suspended and whose context was done before the
\* reservation delay had elapsed returns the context's error, never nil.
C17_CancellationWins ==
    [][\A p \in Procs :
        (Suspended(p) /\ rlProc'[p].pc = "idle"
            /\ rlProc[p].ctxDone /\ rlProc[p].early) =>
                rlLast'.ret = "ctxErr"]_vars

\* C19: no Wait or WaitN call stays suspended for longer than WaitTimeout.
C19_WaitTimeoutBounds ==
    \A p \in Procs : Suspended(p) => now - rlProc[p].start <= rlCfg.WaitTimeout

C20_DryUntilRefilled ==
    [][\A k \in OneKey :
        (tally.at > 0 /\ rlLast'.op = "Allow" /\ rlLast'.key = k) =>
            rlLast'.ret =
                IF tally.left + (now - tally.at) * rlCfg.RefillPerTick
                        >= rlCfg.UnitsPerToken
                THEN "true" ELSE "false"]_vars

\* the grant that ended a dry spell during which Allow calls were refused
C20_Witness ==
    /\ rlLast.op = "Allow" /\ rlLast.ret = "true"
    /\ tally.recovered

(***************************************************************************)
(* Memory cache counters: properties                                       *)
(***************************************************************************)
\* the step is a call of Increment or Decrement on key k that returned no error
Counted(k) ==
    /\ cLast'.op \in {"Increment", "Decrement"}
    /\ cLast'.key = k
    /\ cLast'.err = "nil"

\* what the call of the step adds to the counter
Delta == IF cLast'.op = "Increment" THEN cLast'.amount ELSE 0 - cLast'.amount

\* the key holds an integer the cache still hands out
LiveInteger(k) ==
    /\ items[k] # NoEntry
    /\ ~isExpired(items[k], now)
    /\ items[k].value.kind \in IntKinds

\* C21: Increment(k, a) on an absent key stores and returns a as an entry that
\* never expires; on an unexpired integer entry x it stores and returns x + a,
\* Decrement(k, a) stores and returns x - a, and the expiration is unchanged
\* (for every result that int64 can hold).
C21_IncrementAdds ==
    [][\A k \in Keys :
        Counted(k) =>
            /\ (items[k] = NoEntry /\ Delta \in Int64) =>
                    /\ cLast'.value = Int64Value(Delta)
                    /\ items'[k] = [value |-> Int64Value(Delta), expiration |-> 0]
            /\ (LiveInteger(k) /\ items[k].value.num + Delta \in Int64) =>
                    /\ cLast'.value = Int64Value(items[k].value.num + Delta)
                    /\ items'[k] = [value |-> Int64Value(items[k].value.num + Delta),
                                    expiration |-> items[k].expiration]]_vars

\* Decrement took a nonzero amount off an unexpired int stored with a deadline
C21_Witness ==
    /\ cLast.op = "Decrement" /\ cLast.err = "nil" /\ cLast.amount > 0
    /\ cLast.prior # NoEntry
    /\ cLast.prior.value.kind = "int"
    /\ cLast.prior.expiration > 0 /\ now <= cLast.prior.expiration
    /\ cLast.value.num = cLast.prior.value.num - cLast.amount
    /\ items[cLast.key].expiration = cLast.prior.expiration

\* the number a key counts from: the integer of its entry, 0 when it has none
Counter(entry) == IF entry = NoEntry THEN 0 ELSE entry.value.num

\* C22: Increment(k, a) directly followed by Decrement(k, a), on a key whose
\* value is an integer x (or that has no entry, counted as 0), returns x from
\* the Decrement and leaves k holding x with the expiration it had.
C22_IncrementDecrementRestores ==
    [][\A k \in Keys :
        (/\ cLast.op = "Increment" /\ cLast.key = k /\ cLast.err = "nil"
         /\ cLast.prior = NoEntry \/ cLast.prior.value.kind \in IntKinds
         /\ cLast'.op = "Decrement" /\ cLast'.key = k
         /\ cLast'.amount = cLast.amount) =>
            /\ cLast'.err = "nil"
            /\ cLast'.value.num = Counter(cLast.prior)
            /\ items'[k].value.num = Counter(cLast.prior)
            /\ items'[k].expiration = IF cLast.prior = NoEntry THEN 0
                                      ELSE cLast.prior.expiration]_vars

\* C23: Increment/Decrement on a key whose unexpired value is of none of the
\* accepted numeric types returns the type-mismatch error and changes no entry.
C23_NotNumberFailsClosed ==
    [][\A k \in Keys :
        (/\ cacheCfg.Enabled
         /\ cLast'.op \in {"Increment", "Decrement"} /\ cLast'.key = k
         /\ items[k] # NoEntry /\ ~isExpired(items[k], now)
         /\ items[k].value.kind \notin {"int", "int32", "int64", "float32", "float64"}) =>
            /\ cLast'.err = "notNumber"
            /\ items' = items]_vars

\* Increment refused a number of a type it has no case for, stored with a
\* deadline, while the other key held an entry
C23_Witness ==
    /\ cLast.op = "Increment" /\ cLast.err = "notNumber"
    /\ cLast.prior.value.kind = "uint"
    /\ cLast.prior.expiration > 0
    /\ items[cLast.key] = cLast.prior
    /\ \E j \in Keys \ {cLast.key} : items[j] # NoEntry

\* C24: the Increment(k, 1) calls that have returned in a race on a key that
\* was absent or held the integer x returned the distinct values x+1 .. x+N,
\* N their number, and the key holds x + N: no increment is lost.
C24_NoLostIncrement ==
    LET N == Cardinality(counts.callers)
    IN  /\ counts.rets = (counts.from + 1)..(counts.from + N)
        /\ N > 0 => \A k \in OneKey :
                        items[k] = [value |-> Int64Value(counts.from + N),
                                    expiration |-> 0]

\* every caller's Increment has returned, on a key that held an int, and the
\* sweep is under way
C24_Witness ==
    /\ counts.callers = RaceProcs
    /\ counts.from < 0
    /\ sweeper = "cleanup"
    /\ now > 1

(***************************************************************************)
(* Memory cache lifecycle: properties                                      *)
(***************************************************************************)
\* a call of Close is blocked in its send
Sending == \E p \in Procs : closers.pc[p] = "send"

\* C25: with CleanupInterval > 0 the first Close returns, also when it was
\* called during a sweep, and once a Close has returned the goroutine has
\* stopped: no step of it, and no removal by the sweep, follows.
C25_CloseStopsSweep ==
    /\ (cacheCfg.CleanupInterval > 0 /\ Sending /\ closers.returned = 0)
            ~> (closers.returned >= 1)
    /\ []((cacheCfg.CleanupInterval > 0 /\ closers.returned >= 1) =>
                sweeper = "stopped")
    /\ [][(cacheCfg.CleanupInterval > 0 /\ closers.returned >= 1) =>
                (sweeper' = sweeper /\ cLast'.op # "cleanup")]_vars

\* the Close called during a sweep has returned, the goroutine has stopped
\* and an expired entry is left in the store
C25_Witness ==
    /\ cacheCfg.CleanupInterval > 0
    /\ closers.calls = 1 /\ closers.returned = 1 /\ closers.midSweep
    /\ sweeper = "stopped"
    /\ \E k \in Keys : items[k] # NoEntry /\ isExpired(items[k], now)

\* C26: with CleanupInterval > 0 Close is not idempotent: once one Close has
\* returned no further Close returns.
C26_SecondCloseBlocks ==
    [][(cacheCfg.CleanupInterval > 0 /\ closers.returned >= 1) =>
            closers'.returned = closers.returned]_vars

\* a Close called after the first one returned is blocked in its send, with
\* nobody left to receive
C26_Witness ==
    /\ cacheCfg.CleanupInterval > 0
    /\ closers.returned = 1 /\ closers.calls = 2
    /\ Sending
    /\ sweeper = "stopped"

(***************************************************************************)
(* Circuit breaker, fallback and reset: properties                         *)
(***************************************************************************)
\* C27: ExecuteWithFallback with a non-nil fallback returns fn's result
\* without invoking the fallback when its Execute succeeds; when its Execute
\* returns an error it invokes the fallback once, with that error, and
\* returns what the fallback returned.
C27_FallbackOnEveryError ==
    [][(cbLast'.op = "ExecuteWithFallback" /\ cbLast'.fallback) =>
        IF cbLast'.exec = "ok"
        THEN /\ cbLast'.ret = "ok"
             /\ cbLast'.invoked /\ cbLast'.err = ErrNil
             /\ cbLast'.fbCalls = 0
        ELSE /\ cbLast'.exec \in {ErrFn} \cup OpenErrors
             /\ cbLast'.fbCalls = 1
             /\ cbLast'.fbArg = cbLast'.exec
             /\ cbLast'.ret \in {FallbackOk, ErrFallback}
             /\ \A p \in Procs :
                    (cbProc[p].pc = "fallback" /\ cbProc'[p].pc = "idle") =>
                        cbProc[p].exec = cbLast'.exec]_vars

\* the fallback of a call whose fn failed with an error of its own has
\* returned its result
C27_Witness ==
    /\ cbLast.op = "ExecuteWithFallback" /\ cbLast.fallback
    /\ cbLast.invoked /\ cbLast.exec = ErrFn
    /\ cbLast.fbCalls = 1 /\ cbLast.fbArg = ErrFn
    /\ cbLast.ret = FallbackOk

\* C28: GetState of a key the store holds no breaker for returns Closed and
\* creates nothing: the store and every breaker are as they were.
C28_GetStatePeeks ==
    [][\A k \in Keys :
        (/\ now' = now /\ cbProc' = cbProc
         /\ cbLast'.op = "GetState" /\ cbLast'.key = k
         /\ breakers[k] = 0) =>
            /\ cbLast'.ret = StateClosed
            /\ breakers' = breakers
            /\ objs' = objs]_vars

\* GetState was answered for a key that is not in the store, while a caller
\* of Execute still holds the breaker a Reset took out of it
C28_Witness ==
    /\ cbLast.op = "GetState" /\ cbLast.ret = StateClosed
    /\ breakers[cbLast.key] = 0
    /\ hist = 0
    /\ \E p \in Procs : cbProc[p].ref # 0 /\ cbProc[p].key = cbLast.key

\* C29: Reset(key) removes the key's breaker and leaves the breaker of every
\* other key as it is; GetState(key) after it returns Closed; the Execute
\* that follows it invokes fn against a new Closed breaker with zero
\* counters, whatever state the removed breaker was in.
C29_ResetStartsAfresh ==
    [][\A k \in Keys :
        /\ (now' = now /\ cbLast'.op = "Reset" /\ cbLast'.key = k) =>
                /\ breakers'[k] = 0
                /\ \A j \in Keys \ {k} :
                        /\ breakers'[j] = breakers[j]
                        /\ breakers[j] # 0 => objs'[breakers[j]] = objs[breakers[j]]
        /\ (cbLast.op = "Reset" /\ cbLast.key = k
                /\ cbLast'.op = "GetState" /\ cbLast'.key = k) =>
                cbLast'.ret = StateClosed
        /\ \A p \in Procs :
                (cbProc[p].reset # "none" /\ cbProc[p].key = k
                    /\ cbProc[p].pc = "enter" /\ cbProc'[p].pc # "enter") =>
                    /\ cbProc'[p].pc = "fn" /\ cbProc'[p].invoked
                    /\ breakers[k] = cbProc[p].ref
                    /\ objs[cbProc[p].ref].state = stateClosed
                    /\ objs[cbProc[p].ref].counts = ZeroCounts]_vars

\* fn is running in the Execute that followed the Reset of an Open breaker,
\* while the other key's breaker keeps the requests it has counted
C29_Witness ==
    \E p \in Procs :
        /\ cbProc[p].reset = stateOpen
        /\ cbProc[p].pc = "fn"
        /\ \E j \in Keys \ {cbProc[p].key} :
                /\ breakers[j] # 0
                /\ objs[breakers[j]].counts.requests > 0

\* the breakers whose state the step changes
Changed ==
    {i \in ObjIds : objs[i] # NoObj /\ objs'[i] # NoObj
                        /\ objs'[i].state # objs[i].state}

\* C30: a step of Execute or GetState that changes a breaker's state makes
\* one onStateChange call, in that step, with the breaker's name, the state
\* it had and the state it has; a step that changes no state, such as the
\* recording of a failure on a breaker another failure has already tripped,
\* makes none.
C30_NotifiedOncePerTransition ==
    [][now' = now =>
        /\ Cardinality(Changed) <= 1
        /\ Changed = {} => notes' = <<>>
        /\ \A i \in Changed :
                /\ notes' = <<[name |-> objs[i].name, from |-> objs[i].state,
                               to |-> objs'[i].state]>>
                /\ notes'[1].from # notes'[1].to
                /\ \E k \in Keys : breakers[k] = i /\ notes'[1].name = k]_vars

\* the breaker has just tripped and told so, while the failure of another
\* call that was let through before the trip is yet to be recorded
C30_Witness ==
    /\ notes = <<[name |-> "k1", from |-> stateClosed, to |-> stateOpen]>>
    /\ \E p \in Procs : cbProc[p].pc = "record" /\ cbProc[p].err = ErrFn

(***************************************************************************)
(* Disabled primitives: properties                                         *)
(***************************************************************************)
\* C31: with Enabled=false every Execute invokes fn once and returns what fn
\* returned, never the breaker-open error; no breaker is ever created, and
\* GetState answers Closed however many calls have failed.
C31_DisabledBreakerIsTransparent ==
    /\ [](~cbCfg.Enabled =>
            /\ \A k \in Keys : breakers[k] = 0
            /\ \A i \in ObjIds : objs[i] = NoObj
            /\ \A p \in Procs : cbProc[p] = IdleProc)
    /\ [][(~cbCfg.Enabled /\ now' = now) =>
            /\ cbLast'.op \in {"Execute", "GetState"}
            /\ cbLast'.op = "Execute" =>
                    /\ cbLast'.invoked /\ hist' = hist + 1
                    /\ cbLast'.err \in {ErrNil, ErrFn}
                    /\ cbLast'.ret = IF cbLast'.err = ErrNil THEN "ok" ELSE ErrFn
            /\ cbLast'.op = "GetState" =>
                    /\ cbLast'.ret = StateClosed /\ hist' = hist]_vars

\* on a disabled breaker GetState has answered Closed after fn has been
\* invoked as often as the run allows
C31_Witness ==
    /\ ~cbCfg.Enabled
    /\ hist = MaxCalls
    /\ cbLast.op = "GetState" /\ cbLast.ret = StateClosed

\* C32: with Enabled=false, for every key and n, Allow/AllowN return true,
\* Reserve/ReserveN return 0 and Wait/WaitN return nil in the step of the
\* call, no caller is ever suspended and no bucket is ever created.
C32_DisabledLimiterPermits ==
    /\ [](~rlCfg.Enabled =>
            /\ \A k \in Keys : limiters[k] = NoLimiter
            /\ \A p \in RaceProcs : rlProc[p] = IdleCaller)
    /\ [][(~rlCfg.Enabled /\ rlLast' # NoLimiterCall) =>
            /\ rlLast'.op \in {"Allow", "AllowN"} => rlLast'.ret = "true"
            /\ rlLast'.op \in {"Reserve", "ReserveN"} =>
                    (rlLast'.ret = "duration" /\ rlLast'.wait = 0)
            /\ rlLast'.op \in {"Wait", "WaitN"} => rlLast'.ret = "nil"
            /\ rlLast'.spent = 0
            /\ now' = now]_vars

\* WaitN for the largest amount has returned nil on a disabled limiter
C32_Witness ==
    /\ ~rlCfg.Enabled
    /\ rlLast.op = "WaitN" /\ rlLast.n = MaxN /\ rlLast.ret = "nil"
    /\ rlLast.key = "k2"

\* C33: with Enabled=false the item map is empty at all times; Get, Has and
\* GetMulti report not found (GetMulti: every key missing), Set, SetMulti,
\* Delete, DeleteMulti and Clear return nil, and Increment and Decrement
\* return an error.
C33_DisabledCacheStoresNothing ==
    /\ [](~cacheCfg.Enabled =>
            /\ \A k \in Keys : items[k] = NoEntry /\ deleters[k] = 0
            /\ multi = NoMulti)
    /\ [][(~cacheCfg.Enabled /\ cLast' # NoCacheCall) =>
            /\ ~cLast'.found
            /\ cLast'.op \in {"Get", "Has", "GetMulti"} => cLast'.value = NoValue
            /\ cLast'.op \in {"Get", "Has", "GetMulti", "Set", "SetMulti", "Delete",
                               "DeleteMulti", "Clear"} => cLast'.err = "nil"
            /\ cLast'.op \in {"Increment", "Decrement"} => cLast'.err = "disabled"
            /\ cLast'.op # "GetMulti" => cLast'.missing = {}]_vars

\* GetMulti has reported both keys missing on a disabled cache while the
\* goroutine is in its sweep
C33_Witness ==
    /\ ~cacheCfg.Enabled
    /\ cLast.op = "GetMulti" /\ cLast.missing = Keys
    /\ sweeper = "cleanup"
    /\ now > 1

(***************************************************************************)
(* Counting windows and transitions: properties                            *)
(***************************************************************************)
\* C34: the outcome of a call of fn that was let through by a closed breaker
\* and is recorded when that breaker is open or half-open, that is after a
\* transition, changes neither the breaker's counters nor its state.
C34_StaleOutcomeNotCounted ==
    [][\A p \in Procs :
        (/\ cbProc[p].pc = "record" /\ cbProc'[p].pc # "record"
         /\ ~cbProc[p].probe
         /\ objs[cbProc[p].ref].state # stateClosed)
        => /\ objs'[cbProc[p].ref].counts = objs[cbProc[p].ref].counts
           /\ objs'[cbProc[p].ref].state = objs[cbProc[p].ref].state]_vars

\* C35: in the step that changes the state of a breaker, whichever edge it
\* takes, the breaker's five counters become zero and its lastStateChangeTime
\* becomes the time of that step.
C35_TransitionResetsWindow ==
    [][\A i \in Changed :
            /\ objs'[i].counts = ZeroCounts
            /\ objs'[i].lastStateChangeTime = now']_vars

\* a half-open breaker has just been closed by a success, later than the time
\* it was created at
C35_Witness ==
    /\ notes = <<[name |-> "k1", from |-> stateHalfOpen, to |-> stateClosed]>>
    /\ now > 1
    /\ \E i \in ObjIds :
            /\ breakers["k1"] = i
            /\ objs[i].state = stateClosed
            /\ objs[i].counts = ZeroCounts
            /\ objs[i].lastStateChangeTime = now

\* the changes of state of 4.2
Edges ==
    {<<stateClosed, stateOpen>>, <<stateOpen, stateHalfOpen>>,
     <<stateHalfOpen, stateClosed>>, <<stateHalfOpen, stateOpen>>}

\* C36: a breaker is created closed, and every step of Execute or GetState
\* that changes its state takes one of the edges Closed->Open,
\* Open->HalfOpen, HalfOpen->Closed, HalfOpen->Open; no step takes it from
\* Closed to HalfOpen or from Open to Closed.
C36_OnlyTheEdges ==
    [][\A i \in ObjIds :
        /\ (objs[i] = NoObj /\ objs'[i] # NoObj) => objs'[i].state = stateClosed
        /\ i \in Changed => <<objs[i].state, objs'[i].state>> \in Edges]_vars

\* a breaker that was tripped and then promoted is half-open, and a call let
\* through before the trip is about to record its failure on it
C36_Witness ==
    /\ notes = <<[name |-> "k1", from |-> stateOpen, to |-> stateHalfOpen]>>
    /\ \E p \in Procs : /\ cbProc[p].pc = "record" /\ cbProc[p].err = ErrFn
                         /\ ~cbProc[p].probe
                         /\ objs[cbProc[p].ref].state = stateHalfOpen

(***************************************************************************)
(* Get-or-create of the per-key objects: properties                        *)
(***************************************************************************)
\* the breakers in existence that were made for key k
Made(k) == {i \in ObjIds : objs[i] # NoObj /\ objs[i].name = k}

\* C37: when callers race for the first access of a key, one breaker and one
\* limiter are made for it: a breaker or limiter that is in the store is
\* never replaced by a later getBreaker or getLimiter, no second breaker
\* exists for the key, and the breaker every caller works on is the one the
\* store holds.
C37_OneObjectPerKey ==
    /\ [](\A k \in Keys : /\ Cardinality(Made(k)) <= 1
                           /\ breakers[k] # 0 => Made(k) = {breakers[k]})
    /\ [](\A p \in Procs : cbProc[p].pc \in {"enter", "fn", "record", "check"}
                                => cbProc[p].ref = breakers[cbProc[p].key])
    /\ [][\A k \in Keys : breakers[k] # 0 => breakers'[k] = breakers[k]]_vars
    /\ [][\A p \in Procs :
            (/\ rlProc[p].pc = "getLimiter" /\ rlProc'[p].pc = "op"
             /\ limiters[rlProc[p].key] # NoLimiter)
            => limiters' = limiters]_vars

\* a caller that found no breaker, and a caller that found no limiter, under
\* the read lock are each about to take the write lock, while another caller
\* has meanwhile made the object and recorded a failure on it, or taken a
\* token from it
C37_Witness ==
    /\ \E p \in Procs :
            /\ cbProc[p].pc = "getBreaker"
            /\ breakers[cbProc[p].key] # 0
            /\ objs[breakers[cbProc[p].key]].counts.totalFailures = 1
    /\ \E p \in Procs :
            /\ rlProc[p].pc = "getLimiter"
            /\ limiters[rlProc[p].key] # NoLimiter
            /\ limiters[rlProc[p].key].tokens < Capacity(rlCfg)

(***************************************************************************)
(* Counters and the bound of the store: properties                         *)
(***************************************************************************)
\* C38: in the state a successful Increment or Decrement of k that returned v
\* leaves, Get(k) finds an unexpired entry holding v; when k held an expired
\* entry, Increment(k, a) returns a and the same is true.
C38_CounterIsReadable ==
    [][\A k \in Keys :
        Counted(k) =>
            /\ items'[k] # NoEntry
            /\ ~isExpired(items'[k], now')
            /\ items'[k].value = cLast'.value
            /\ (items[k] # NoEntry /\ isExpired(items[k], now)
                    /\ cLast'.op = "Increment")
                => cLast'.value = Int64Value(cLast'.amount)]_vars

\* C39: with MaxEntries = m > 0 the store never holds more than m entries,
\* whatever operations ran, Increment and Decrement of keys without an entry
\* included.
C39_NeverMoreThanMaxEntries ==
    cacheCfg.MaxEntries > 0 => Cardinality(Stored) <= cacheCfg.MaxEntries

\* C40: a Set of a key that holds an unexpired entry leaves the entry of
\* every other key as it was and the number of entries unchanged, also when
\* the store holds MaxEntries entries.
C40_SetOfPresentKeyEvictsNothing ==
    [][\A k \in Keys :
        (/\ cLast'.op = "Set" /\ cLast'.key = k
         /\ items[k] # NoEntry /\ ~isExpired(items[k], now))
        => /\ \A j \in Keys \ {k} : items'[j] = items[j]
           /\ Cardinality(Stored') = Cardinality(Stored)]_vars

=============================================================================
